---- MODULE Spec2Model ----
(***************************************************************************)
(* Model of the data-access layer of the project-management application   *)
(* (src/services/database.ts), of the relations it works on               *)
(* (src/supabase/migrations, src/unnamed/part_004) and of the task         *)
(* suggestion adapter (src/unnamed/part_001).                              *)
(*                                                                         *)
(* Every exported function of database.ts is a sequence of awaited remote  *)
(* calls.  One action of the model is one remote call together with the    *)
(* local code that follows it up to the next await, so that the calls of   *)
(* several clients interleave exactly where the code awaits.               *)
(***************************************************************************)
EXTENDS Integers, Sequences, FiniteSets, TLC

(***************************************************************************)
(* Bounds of the model.                                                    *)
(***************************************************************************)
\* number of invitation rows ever inserted (ids are 1..MaxInvitations)
MaxInvitations == 2
\* number of task rows ever inserted (ids are 1..MaxTasks)
MaxTasks == 3
\* number of task rows ever inserted while milestones are followed
MaxBoardTasks == 2
\* number of milestone rows ever inserted (ids are 1..MaxMilestones)
MaxMilestones == 2
\* length of the longest array the generative service answers with
\* rows of one relation created beside the creation and deletion of projects
MaxProjectRows == 1
\* comments created, and attachments of one comment
MaxComments == 2
MaxAttachments == 1
\* tasks suggested to the wizard of a new project
MaxSuggested == 2
\* remote calls of one function of the data-access layer that fail
MaxFailures == 1
\* rows of one table inserted while all the handlers of a session are followed
MaxAppRows == 1
MaxResponseLen == 9
\* length of the longest such array that has null among its elements
MaxNullArrayLen == 2

Projects == {"p1", "p2"}
Users == {"u1", "u2"}
Clients == {"c1", "c2"}
\* the ids of the projects created later
NewProjects == {"p3"}
\* the user signed in at a client: user.id in App, auth.uid() in the policies
UserOf(c) == IF c = "c1" THEN "u1" ELSE "u2"

\* the user named in projects.created_by; createProject makes that user Owner
CreatedBy(p) == IF p = "p1" THEN "u1" ELSE "u2"

InvitationIds == 1..MaxInvitations
TaskIds == 1..MaxTasks

\* enum TaskStatus
TaskStatuses == {"Todo", "In Progress", "Completed"}

\* a field that the caller left out of an update, or passed as undefined
Undefined == "undefined"
\* the same for a field that holds the id of a milestone
UndefinedId == -1

\* the SQL value NULL in tasks.assignee_id and in tasks.milestone_id
NullUser == "null"
NullId == 0

\* role IN ('Member', 'Viewer') of project_invitations
InvitationRoles == {"Member", "Viewer"}

(***************************************************************************)
(* Results of a call of the data-access layer: "ok" when the promise       *)
(* resolves, otherwise the error it rejects with.                          *)
(***************************************************************************)
OK == "ok"
ErrAlreadyMember == "User is already a member of this project"
ErrPendingInvitation == "User already has a pending invitation to this project"
\* PostgreSQL 23505, raised by a UNIQUE constraint
ErrUniqueViolation == "duplicate key value violates unique constraint"
\* PostgREST PGRST116, returned by .single() when the result is not one row
ErrForeignKey == "insert or update on table violates foreign key constraint"
\* the error of an insert that the row-level security policy refuses
ErrRowLevelSecurity == "new row violates row-level security policy"
ErrNoSingleRow == "JSON object requested, multiple (or no) rows returned"
\* the error of a remote call that did not get through: the request has
\* not been carried out
ErrFetch == "TypeError: Failed to fetch"

VARIABLES
    project_members,      \* rows of the relation project_members
    project_invitations,  \* rows of the relation project_invitations
    nextInvId,            \* the next id given to a project_invitations row
    tasks,                \* rows of the relation tasks
    progress,             \* per project: the column projects.progress
    nextTaskId,           \* the next id given to a tasks row
    apiKey,               \* generateProjectTasks: whether process.env.API_KEY is set
    attempt,              \* generateProjectTasks: the retry counter
    gen_pc,               \* generateProjectTasks: where the call stands
    response,             \* what the last generateContent call came back with
    generated,            \* generateProjectTasks: the tasks it has returned
    externalCalls,        \* the number of generateContent calls made
    delays,               \* the waits of the backoff, in milliseconds
    pc,                   \* per client: where its running call stands
    call,                 \* per client: arguments and locals of the running call
    result,               \* the outcome of the call that returned last
    pre,                  \* per client: the relations as they were when its call started,
                          \* kept while the call runs with no call of another client
                          \* running beside it
    projects,             \* ids of the rows of the relation projects
    milestones,           \* rows of the relation milestones
    nextMilestoneId,      \* the next id given to a milestones row
    comments,             \* rows of the relation comments
    nextCommentId,        \* the next id given to a comments row
    attachments,          \* rows of the relation attachments
    view,                 \* App: the state view
    selectedProjectId,    \* App: the state selectedProjectId
    clientProjects,       \* App: the state projects, the list last loaded
    toasts                \* per client: the notifications its handler has shown

invvars == <<project_members, project_invitations, nextInvId>>
taskvars == <<tasks, progress, nextTaskId>>
genvars == <<apiKey, attempt, gen_pc, response, generated, externalCalls, delays>>
boardvars == <<projects, milestones, nextMilestoneId, comments, nextCommentId, attachments>>
appvars == <<view, selectedProjectId, clientProjects, toasts>>
\* the relations
dbvars == <<invvars, taskvars, boardvars>>
vars == <<project_members, project_invitations, nextInvId, tasks, progress, nextTaskId,
          apiKey, attempt, gen_pc, response, generated, externalCalls, delays,
          pc, call, result, pre,
          projects, milestones, nextMilestoneId, comments, nextCommentId, attachments,
          view, selectedProjectId, clientProjects, toasts>>

\* the value null of selectedProjectId
NoProject == "null"

NoCall == [op |-> "none"]
NoPre == [valid |-> FALSE]

MemberRow(p, u, r) == [project_id |-> p, user_id |-> u, role |-> r]

InvitationRow(i, p, u, by, r, s) ==
    [id |-> i, project_id |-> p, invited_user_id |-> u, invited_by |-> by,
     role |-> r, status |-> s]

(***************************************************************************)
(* Queries and constraints.                                                *)
(***************************************************************************)
\* variant: the membership check only sees Owner rows
ExistingMember_ownersOnly(members, p, u) ==
    {m \in members : m.project_id = p /\ m.user_id = u /\ m.role = "Owner"}

\* .from('project_members').eq('project_id', p).eq('user_id', u)
ExistingMember(members, p, u) ==
    {m \in members : m.project_id = p /\ m.user_id = u}

\* .from('project_invitations').eq('project_id', p).eq('invited_user_id', u).eq('status', 'pending')
ExistingInvitation(invitations, p, u) ==
    {i \in invitations : i.project_id = p /\ i.invited_user_id = u /\ i.status = "pending"}

\* variant: the relation has no UNIQUE(project_id, invited_user_id)
InvitationConflicts_noConstraint(invitations, p, u) == {}

\* UNIQUE(project_id, invited_user_id): the rows an insert for (p, u) collides with
InvitationConflicts(invitations, p, u) ==
    {i \in invitations : i.project_id = p /\ i.invited_user_id = u}

\* variant: the relation has no UNIQUE(project_id, user_id)
MemberConflicts_noConstraint(members, p, u) == {}

\* UNIQUE(project_id, user_id): the rows an insert for (p, u) collides with
MemberConflicts(members, p, u) ==
    {m \in members : m.project_id = p /\ m.user_id = u}

\* .from('project_invitations').eq('id', id).eq('status', 'pending')
PendingById(invitations, id) ==
    {i \in invitations : i.id = id /\ i.status = "pending"}

\* .from('project_invitations').update({ status: 'accepted' }).eq('id', id)
AcceptMatch(invitations, id) == {i \in invitations : i.id = id}

\* .from('project_invitations').update({ status: 'declined' }).eq('id', id)
DeclineMatch(invitations, id) == {i \in invitations : i.id = id}

\* variant: the delete has no .eq('status', 'pending')
CancelMatch_anyStatus(invitations, id) == {i \in invitations : i.id = id}

\* .from('project_invitations').delete().eq('id', id).eq('status', 'pending')
CancelMatch(invitations, id) ==
    {i \in invitations : i.id = id /\ i.status = "pending"}

\* UPDATE ... SET status = s over the matched rows
SetStatus(invitations, matched, s) ==
    {IF i \in matched THEN [i EXCEPT !.status = s] ELSE i : i \in invitations}

\* calls that may still insert an invitation row
InsertsInFlight == Cardinality({c \in Clients : call[c].op = "createProjectInvitation"})

Snapshot ==
    [valid |-> TRUE, members |-> project_members, invitations |-> project_invitations]

\* no call of another client is running
Alone(c) == \A d \in Clients \ {c} : pc[d] = "idle"

\* The calls of the data-access layer leave the state of App as it is.
\* client c starts a call that goes on at label
Start(c, label, locals) ==
    /\ pc' = [pc EXCEPT ![c] = label]
    /\ call' = [call EXCEPT ![c] = locals]
    /\ pre' = [d \in Clients |-> IF d = c /\ Alone(c) THEN Snapshot ELSE NoPre]
    /\ result' = result
    /\ UNCHANGED appvars

\* the running call of client c goes on at label with the locals given
GotoWith(c, label, locals) ==
    /\ pc' = [pc EXCEPT ![c] = label]
    /\ call' = [call EXCEPT ![c] = locals]
    /\ pre' = [d \in Clients |-> IF d = c THEN pre[c] ELSE NoPre]
    /\ result' = result
    /\ UNCHANGED appvars

\* the running call of client c goes on at label
Goto(c, label) == GotoWith(c, label, call[c])

\* the call of client c returns r
Return(c, r) ==
    /\ pc' = [pc EXCEPT ![c] = "idle"]
    /\ call' = [call EXCEPT ![c] = NoCall]
    /\ pre' = [d \in Clients |-> NoPre]
    /\ result' = r
    /\ UNCHANGED appvars

(***************************************************************************)
(* createProjectInvitation                                                 *)
(***************************************************************************)
\* the call starts and looks for a membership row of the invited user
createProjectInvitation_existingMember(c, p, u, by, r) ==
    /\ pc[c] = "idle"
    /\ UNCHANGED <<taskvars, genvars, boardvars>>
    /\ nextInvId + InsertsInFlight <= MaxInvitations
    /\ UNCHANGED invvars
    /\ IF ExistingMember(project_members, p, u) # {}
       THEN Return(c, ErrAlreadyMember)
       ELSE Start(c, "existingInvitation",
                  [op |-> "createProjectInvitation", projectId |-> p,
                   invitedUserId |-> u, invitedBy |-> by, role |-> r,
                   pendingAtStart |-> ExistingInvitation(project_invitations, p, u) # {}])

\* it looks for a pending invitation of the invited user
createProjectInvitation_existingInvitation(c) ==
    /\ pc[c] = "existingInvitation"
    /\ UNCHANGED <<taskvars, genvars, boardvars>>
    /\ UNCHANGED invvars
    /\ IF ExistingInvitation(project_invitations, call[c].projectId, call[c].invitedUserId) # {}
       THEN Return(c, ErrPendingInvitation)
       ELSE Goto(c, "insertInvitation")

\* it inserts the invitation row
createProjectInvitation_insert(c) ==
    /\ pc[c] = "insertInvitation"
    /\ UNCHANGED <<taskvars, genvars, boardvars>>
    /\ UNCHANGED project_members
    /\ IF call[c].projectId \notin projects
       THEN /\ UNCHANGED <<project_invitations, nextInvId>>
            /\ Return(c, ErrForeignKey)
       ELSE IF InvitationConflicts(project_invitations, call[c].projectId,
                                   call[c].invitedUserId) # {}
       THEN /\ UNCHANGED <<project_invitations, nextInvId>>
            /\ Return(c, ErrUniqueViolation)
       ELSE /\ project_invitations' = project_invitations \cup
                  {InvitationRow(nextInvId, call[c].projectId, call[c].invitedUserId,
                                 call[c].invitedBy, call[c].role, "pending")}
            /\ nextInvId' = nextInvId + 1
            /\ Return(c, OK)

createProjectInvitation(c) ==
    \/ \E p \in Projects, u \in Users, r \in InvitationRoles :
          createProjectInvitation_existingMember(c, p, u, CreatedBy(p), r)
    \/ createProjectInvitation_existingInvitation(c)
    \/ createProjectInvitation_insert(c)

(***************************************************************************)
(* acceptProjectInvitation                                                 *)
(***************************************************************************)
\* the call starts and reads the invitation, which has to be pending
acceptProjectInvitation_select(c, id) ==
    /\ pc[c] = "idle"
    /\ UNCHANGED <<taskvars, genvars, boardvars>>
    /\ UNCHANGED invvars
    /\ IF Cardinality(PendingById(project_invitations, id)) # 1
       THEN Return(c, ErrNoSingleRow)
       ELSE Start(c, "insertMember",
                  [op |-> "acceptProjectInvitation", invitationId |-> id,
                   invitation |-> CHOOSE i \in PendingById(project_invitations, id) : TRUE])

\* it inserts the membership row
acceptProjectInvitation_insertMember(c) ==
    /\ pc[c] = "insertMember"
    /\ UNCHANGED <<taskvars, genvars, boardvars>>
    /\ UNCHANGED <<project_invitations, nextInvId>>
    /\ LET inv == call[c].invitation IN
       IF inv.project_id \notin projects
       THEN /\ UNCHANGED project_members
            /\ Return(c, ErrForeignKey)
       ELSE IF MemberConflicts(project_members, inv.project_id, inv.invited_user_id) # {}
       THEN /\ UNCHANGED project_members
            /\ Return(c, ErrUniqueViolation)
       ELSE /\ project_members' = project_members \cup
                  {MemberRow(inv.project_id, inv.invited_user_id, inv.role)}
            /\ Goto(c, "updateStatus")

\* it marks the invitation accepted
acceptProjectInvitation_updateStatus(c) ==
    /\ pc[c] = "updateStatus"
    /\ UNCHANGED <<taskvars, genvars, boardvars>>
    /\ UNCHANGED <<project_members, nextInvId>>
    /\ project_invitations' =
          SetStatus(project_invitations,
                    AcceptMatch(project_invitations, call[c].invitationId), "accepted")
    /\ Return(c, OK)

acceptProjectInvitation(c) ==
    \/ \E id \in InvitationIds : acceptProjectInvitation_select(c, id)
    \/ acceptProjectInvitation_insertMember(c)
    \/ acceptProjectInvitation_updateStatus(c)

(***************************************************************************)
(* declineProjectInvitation, cancelProjectInvitation                       *)
(***************************************************************************)
\* variant: declining also withdraws the membership of the invited user
declineProjectInvitation_dropsMember(c, id) ==
    /\ pc[c] = "idle"
    /\ UNCHANGED <<taskvars, genvars, boardvars>>
    /\ UNCHANGED nextInvId
    /\ project_members' =
          {m \in project_members :
              \A i \in DeclineMatch(project_invitations, id) :
                  ~(m.project_id = i.project_id /\ m.user_id = i.invited_user_id)}
    /\ project_invitations' =
          SetStatus(project_invitations, DeclineMatch(project_invitations, id), "declined")
    /\ Return(c, OK)

declineProjectInvitation(c, id) ==
    /\ pc[c] = "idle"
    /\ UNCHANGED <<taskvars, genvars, boardvars>>
    /\ UNCHANGED <<project_members, nextInvId>>
    /\ project_invitations' =
          SetStatus(project_invitations, DeclineMatch(project_invitations, id), "declined")
    /\ Return(c, OK)

cancelProjectInvitation(c, id) ==
    /\ pc[c] = "idle"
    /\ UNCHANGED <<taskvars, genvars, boardvars>>
    /\ UNCHANGED <<project_members, nextInvId>>
    /\ project_invitations' = project_invitations \ CancelMatch(project_invitations, id)
    /\ Return(c, OK)

(***************************************************************************)
(* The same calls when a remote call fails: the request is not carried     *)
(* out and supabase answers { data: null, error }.                         *)
(***************************************************************************)
\* createProjectInvitation: the membership query fails; its error is not
\* read, existingMember is null and the call goes on
createProjectInvitation_existingMemberFails(c, p, u, by, r) ==
    /\ pc[c] = "idle"
    /\ UNCHANGED <<taskvars, genvars, boardvars>>
    /\ nextInvId + InsertsInFlight <= MaxInvitations
    /\ UNCHANGED invvars
    /\ Start(c, "existingInvitation",
             [op |-> "createProjectInvitation", projectId |-> p,
              invitedUserId |-> u, invitedBy |-> by, role |-> r,
              pendingAtStart |-> ExistingInvitation(project_invitations, p, u) # {}])

\* createProjectInvitation: the pending-invitation query fails; its error
\* is not read either
createProjectInvitation_existingInvitationFails(c) ==
    /\ pc[c] = "existingInvitation"
    /\ UNCHANGED <<taskvars, genvars, boardvars>>
    /\ UNCHANGED invvars
    /\ Goto(c, "insertInvitation")

\* createProjectInvitation: the insert fails and the call throws
createProjectInvitation_insertFails(c) ==
    /\ pc[c] = "insertInvitation"
    /\ UNCHANGED <<taskvars, genvars, boardvars>>
    /\ UNCHANGED invvars
    /\ Return(c, ErrFetch)

\* acceptProjectInvitation: the select of the invitation fails and the
\* call throws
acceptProjectInvitation_selectFails(c, id) ==
    /\ pc[c] = "idle"
    /\ UNCHANGED <<taskvars, genvars, boardvars>>
    /\ UNCHANGED invvars
    /\ Return(c, ErrFetch)

\* acceptProjectInvitation: the insert of the membership fails and the call
\* throws
acceptProjectInvitation_insertMemberFails(c) ==
    /\ pc[c] = "insertMember"
    /\ UNCHANGED <<taskvars, genvars, boardvars>>
    /\ UNCHANGED invvars
    /\ Return(c, ErrFetch)

\* acceptProjectInvitation: the update of the status fails and the call
\* throws; nothing is undone
acceptProjectInvitation_updateStatusFails(c) ==
    /\ pc[c] = "updateStatus"
    /\ UNCHANGED <<taskvars, genvars, boardvars>>
    /\ UNCHANGED invvars
    /\ Return(c, ErrFetch)

\* declineProjectInvitation: the update fails and the call throws
declineProjectInvitation_fails(c, id) ==
    /\ pc[c] = "idle"
    /\ UNCHANGED <<taskvars, genvars, boardvars>>
    /\ UNCHANGED invvars
    /\ Return(c, ErrFetch)

\* cancelProjectInvitation: the delete fails and the call throws
cancelProjectInvitation_fails(c, id) ==
    /\ pc[c] = "idle"
    /\ UNCHANGED <<taskvars, genvars, boardvars>>
    /\ UNCHANGED invvars
    /\ Return(c, ErrFetch)

\* handleAcceptInvitation: the notification shown for the outcome r of
\* acceptProjectInvitation
handleAcceptInvitation_toast(r) ==
    IF r = OK THEN "Invitation accepted! Project added to your dashboard"
    ELSE "Failed to accept invitation"

\* tasks and milestones FOR INSERT, UPDATE, DELETE TO authenticated: true
TaskPolicy(uid, row) == TRUE

\* project_members FOR INSERT, DELETE TO authenticated: true
MemberPolicy(uid, row) == TRUE

\* comments FOR INSERT: user_id = auth.uid()
CommentInsertPolicy(uid, row) == row.user_id = uid

(***************************************************************************)
(* Tasks and project progress                                              *)
(***************************************************************************)
TaskRow(i, p, st, pos, a, m) ==
    [id |-> i, project_id |-> p, status |-> st, position |-> pos,
     assignee_id |-> a, milestone_id |-> m]

\* the fields of taskData and of updates that the model follows
TaskData(st, a, m) == [status |-> st, assigneeId |-> a, milestoneId |-> m]

\* insert: a key whose value is undefined is not sent, and the column takes
\* its default, 'Todo' for status and NULL for assignee_id and milestone_id
InsertStatus(st) == IF st = Undefined THEN "Todo" ELSE st
InsertUser(a) == IF a = Undefined THEN NullUser ELSE a
InsertId(m) == IF m = UndefinedId THEN NullId ELSE m

\* .from('tasks').eq('project_id', p)
TasksOf(rows, p) == {t \in rows : t.project_id = p}

\* .from('tasks').eq('id', id)
TaskById(rows, id) == {t \in rows : t.id = id}

\* .from('tasks').select('*').eq('project_id', p).order('position'): the
\* sequences of task ids the query may return; rows of equal position come
\* in any order
getTasks(rows, p) ==
    LET ts == TasksOf(rows, p)
        n == Cardinality(ts)
        position(i) == (CHOOSE t \in ts : t.id = i).position
    IN {s \in [1..n -> {t.id : t \in ts}] :
           /\ \A i, j \in 1..n : i # j => s[i] # s[j]
           /\ \A i, j \in 1..n : i < j => position(s[i]) <= position(s[j])}

\* variant: the next position is taken from the number of tasks
MaxPosition_count(rows, p) == Cardinality(TasksOf(rows, p))

\* .order('position', { ascending: false }).limit(1).single(); 0 stands for no row
MaxPosition(rows, p) ==
    IF TasksOf(rows, p) = {} THEN 0
    ELSE CHOOSE n \in {t.position : t \in TasksOf(rows, p)} :
            \A t \in TasksOf(rows, p) : t.position <= n

\* Math.round(x) of JavaScript for x = num / den >= 0: the nearest integer, halves up
MathRound(num, den) == (2 * num + den) \div (2 * den)

\* updateProjectProgress: the value it computes from the rows it has read
ComputeProgress(rows) ==
    IF rows = {} THEN 0
    ELSE MathRound(Cardinality({t \in rows : t.status = "Completed"}) * 100,
                   Cardinality(rows))

\* variant: the fields left out of updates are set to their defaults
ApplyUpdates_wholeRow(rows, id, updates) ==
    {IF t.id = id
     THEN [t EXCEPT
             !.status = InsertStatus(updates.status),
             !.assignee_id = InsertUser(updates.assigneeId),
             !.milestone_id = InsertId(updates.milestoneId)]
     ELSE t : t \in rows}

\* tasks.update(updateData).eq('id', id): updateData holds the fields of
\* updates whose value is not undefined
ApplyUpdates(rows, id, updates) ==
    {IF t.id = id
     THEN [t EXCEPT
             !.status = IF updates.status # Undefined THEN updates.status ELSE @,
             !.assignee_id = IF updates.assigneeId # Undefined THEN updates.assigneeId ELSE @,
             !.milestone_id = IF updates.milestoneId # UndefinedId THEN updates.milestoneId
                              ELSE @]
     ELSE t : t \in rows}

\* calls that may still insert a task row
\* a row of comments and a row of attachments (the n-th of its comment)
CommentRow(i, t, u) == [id |-> i, task_id |-> t, user_id |-> u]
AttachmentRow(k, n) == [comment_id |-> k, n |-> n]

\* the foreign keys with ON DELETE CASCADE: the rows that stay once the rows
\* of the parent relation are those of parents
\* variant: the comments of a deleted task stay
CommentsAfterDelete_noCascade(rows, parents) == rows

\* comments.task_id REFERENCES tasks(id) ON DELETE CASCADE
CommentsAfterDelete(rows, parents) ==
    {k \in rows : \E t \in parents : t.id = k.task_id}

\* attachments.comment_id REFERENCES comments(id) ON DELETE CASCADE
AttachmentsAfterDelete(rows, parents) ==
    {a \in rows : \E k \in parents : k.id = a.comment_id}

\* project_id REFERENCES projects(id) ON DELETE CASCADE, of project_members,
\* project_invitations, milestones and tasks
RowsAfterProjectDelete(rows, parents) == {r \in rows : r.project_id \in parents}

TaskInsertsInFlight == Cardinality({c \in Clients : call[c].op = "createTask"})

\* createTask: the call starts and reads the highest position of the project
createTask_maxPos(c, p, taskData) ==
    /\ pc[c] = "idle"
    /\ nextTaskId + TaskInsertsInFlight <= MaxTasks
    /\ UNCHANGED <<invvars, taskvars, genvars, boardvars>>
    /\ Start(c, "insertTask",
             [op |-> "createTask", projectId |-> p, taskData |-> taskData,
              position |-> MaxPosition(tasks, p) + 1])

\* createTask: it inserts the task row and returns
createTask_insert(c) ==
    /\ pc[c] = "insertTask"
    /\ UNCHANGED <<invvars, genvars, boardvars, progress>>
    /\ LET row == TaskRow(nextTaskId, call[c].projectId,
                          InsertStatus(call[c].taskData.status), call[c].position,
                          InsertUser(call[c].taskData.assigneeId),
                          InsertId(call[c].taskData.milestoneId))
       IN IF ~TaskPolicy(UserOf(c), row)
          THEN /\ UNCHANGED <<tasks, nextTaskId>>
               /\ Return(c, ErrRowLevelSecurity)
          ELSE IF call[c].projectId \notin projects
          THEN /\ UNCHANGED <<tasks, nextTaskId>>
               /\ Return(c, ErrForeignKey)
          ELSE /\ tasks' = tasks \cup {row}
               /\ nextTaskId' = nextTaskId + 1
               /\ Return(c, OK)

\* handleAddTask and handleCreateProject, the callers, pass status Todo; a
\* caller that leaves the status out is followed as well
createTask(c) ==
    \/ \E p \in Projects, st \in {"Todo", Undefined} :
          createTask_maxPos(c, p, TaskData(st, Undefined, UndefinedId))
    \/ createTask_insert(c)

\* updateTask, called by handler while client c is at label from: the call
\* starts and updates the row
updateTask_call(c, from, handler, id, updates) ==
    /\ pc[c] = from
    /\ UNCHANGED <<invvars, genvars, boardvars, progress, nextTaskId>>
    /\ tasks' = ApplyUpdates(tasks, id, updates)
    /\ Start(c, "updateTask_selectProject",
             [op |-> "updateTask", handler |-> handler, taskId |-> id,
              updates |-> updates])

\* handleUpdateTask: updateTask(taskId, updates)
updateTask_update(c, id, updates) ==
    updateTask_call(c, "idle", "handleUpdateTask", id, updates)

\* updateTask: it reads the project of the task
updateTask_selectProject(c) ==
    /\ pc[c] = "updateTask_selectProject"
    /\ UNCHANGED <<invvars, taskvars, genvars, boardvars>>
    /\ IF TaskById(tasks, call[c].taskId) = {}
       THEN Return(c, OK)
       ELSE GotoWith(c, "progressSelect",
                     [projectId |->
                         (CHOOSE t \in TaskById(tasks, call[c].taskId) : TRUE).project_id]
                     @@ call[c])

updateTask(c) ==
    \/ \E id \in TaskIds, st \in TaskStatuses \cup {Undefined} :
          updateTask_update(c, id, TaskData(st, Undefined, UndefinedId))
    \/ updateTask_selectProject(c)

\* deleteTask: the call starts and reads the project of the task
deleteTask_selectProject(c, id) ==
    /\ pc[c] = "idle"
    /\ UNCHANGED <<invvars, taskvars, genvars, boardvars>>
    /\ Start(c, "deleteTask_delete",
             [op |-> "deleteTask", taskId |-> id,
              projectId |-> IF TaskById(tasks, id) = {} THEN Undefined
                            ELSE (CHOOSE t \in TaskById(tasks, id) : TRUE).project_id])

\* deleteTask: it deletes the row, and with it the comments of the task and
\* their attachments
deleteTask_delete(c) ==
    /\ pc[c] = "deleteTask_delete"
    /\ UNCHANGED <<invvars, genvars, progress, nextTaskId>>
    /\ UNCHANGED <<projects, milestones, nextMilestoneId, nextCommentId>>
    /\ tasks' = tasks \ TaskById(tasks, call[c].taskId)
    /\ comments' = CommentsAfterDelete(comments, tasks')
    /\ attachments' = AttachmentsAfterDelete(attachments, comments')
    /\ IF call[c].projectId = Undefined
       THEN Return(c, OK)
       ELSE Goto(c, "progressSelect")

deleteTask(c) ==
    \/ \E id \in TaskIds : deleteTask_selectProject(c, id)
    \/ deleteTask_delete(c)

\* updateProjectProgress: it reads the status of the tasks of the project
updateProjectProgress_select(c) ==
    /\ pc[c] = "progressSelect"
    /\ UNCHANGED <<invvars, taskvars, genvars, boardvars>>
    /\ GotoWith(c, "progressUpdate",
                [newProgress |-> ComputeProgress(TasksOf(tasks, call[c].projectId))]
                @@ call[c])

\* updateProjectProgress: it writes projects.progress; updateTask or deleteTask returns
updateProjectProgress_update(c) ==
    /\ pc[c] = "progressUpdate"
    /\ UNCHANGED <<invvars, genvars, boardvars, tasks, nextTaskId>>
    /\ progress' = IF call[c].projectId \in projects
                   THEN [progress EXCEPT ![call[c].projectId] = call[c].newProgress]
                   ELSE progress
    /\ Return(c, OK)

updateProjectProgress(c) ==
    \/ updateProjectProgress_select(c)
    \/ updateProjectProgress_update(c)

(***************************************************************************)
(* Milestones and the milestone of a task                                  *)
(***************************************************************************)
MilestoneRow(i, p) == [id |-> i, project_id |-> p]

\* project.milestones, as getProjects loads it: the ids of the milestones of
\* the project ordered by created_at
MilestonesOf(rows, p) == {m.id : m \in {r \in rows : r.project_id = p}}

\* variant: the effect takes the first milestone of the list
LastMilestone_first(rows, p) ==
    CHOOSE i \in MilestonesOf(rows, p) : \A j \in MilestonesOf(rows, p) : i <= j

\* project.milestones[project.milestones.length - 1]
LastMilestone(rows, p) ==
    CHOOSE i \in MilestonesOf(rows, p) : \A j \in MilestonesOf(rows, p) : j <= i

\* project.team of the loaded project: the users with a membership row
TeamOf(members, p) == {m.user_id : m \in {r \in members : r.project_id = p}}

\* createMilestone: milestones.insert({ project_id, title, due_date, description })
createMilestone(c, p) ==
    /\ pc[c] = "idle"
    /\ nextMilestoneId <= MaxMilestones
    /\ UNCHANGED <<invvars, taskvars, genvars>>
    /\ UNCHANGED <<projects, comments, nextCommentId, attachments>>
    /\ IF ~TaskPolicy(UserOf(c), MilestoneRow(nextMilestoneId, p))
       THEN /\ UNCHANGED <<milestones, nextMilestoneId>>
            /\ Return(c, ErrRowLevelSecurity)
       ELSE IF p \notin projects
       THEN /\ UNCHANGED <<milestones, nextMilestoneId>>
            /\ Return(c, ErrForeignKey)
       ELSE /\ milestones' = milestones \cup {MilestoneRow(nextMilestoneId, p)}
            /\ nextMilestoneId' = nextMilestoneId + 1
            /\ Return(c, OK)

\* the Add Milestone form: onAddMilestone(project.id, title, dueDate)
handleAddMilestone(c, p) == createMilestone(c, p)

\* 'Create New...' in the add-task form: onAddMilestone(project.id, title);
\* the effect that follows the reload only fills the form in
handleInlineMilestoneCreate(c, p) == createMilestone(c, p)

\* 'Create New...' in the task sidebar, with task id open in it:
\* onAddMilestone(project.id, title); the effect that follows the reload
\* finds isSidebarCreatingMilestone set
handleSidebarInlineMilestoneCreate(c, p, id) ==
    /\ pc[c] = "idle"
    /\ nextMilestoneId <= MaxMilestones
    /\ UNCHANGED <<invvars, taskvars, genvars>>
    /\ UNCHANGED <<projects, comments, nextCommentId, attachments>>
    /\ milestones' = milestones \cup {MilestoneRow(nextMilestoneId, p)}
    /\ nextMilestoneId' = nextMilestoneId + 1
    /\ Start(c, "sidebarEffect",
             [op |-> "sidebarMilestone", projectId |-> p, activeTask |-> id])

\* the sidebar effect: onUpdateTask(project.id, activeTask.id,
\* { milestoneId: newMilestone.id }) with the last milestone of the list
sidebarEffect(c) ==
    /\ pc[c] = "sidebarEffect"
    /\ updateTask_call(c, "sidebarEffect", "sidebarEffect", call[c].activeTask,
                       TaskData(Undefined, Undefined,
                                LastMilestone(milestones, call[c].projectId)))

\* handleMoveTask: updateTask(taskId, { milestoneId: newMilestoneId }); the
\* drop handlers pass undefined for the Uncategorized area
handleMoveTask(c, id, newMilestoneId) ==
    updateTask_call(c, "idle", "handleMoveTask", id,
                    TaskData(Undefined, Undefined, newMilestoneId))

(***************************************************************************)
(* createProject, deleteProject, removeProjectMember, createComment        *)
(***************************************************************************)
\* createProject: it inserts the project row, with progress 0
createProject_insert(c, p, createdBy, teamMemberIds) ==
    /\ pc[c] = "idle"
    /\ p \notin DOMAIN progress
    /\ UNCHANGED <<invvars, genvars, tasks, nextTaskId>>
    /\ UNCHANGED <<milestones, nextMilestoneId, comments, nextCommentId, attachments>>
    /\ projects' = projects \cup {p}
    /\ progress' = (p :> 0) @@ progress
    /\ Start(c, "insertTeam",
             [op |-> "createProject", projectId |-> p, createdBy |-> createdBy,
              teamMemberIds |-> teamMemberIds])

\* variant: every user of the team is inserted as Owner
TeamMembers_allOwners(p, createdBy, teamMemberIds) ==
    {MemberRow(p, u, "Owner") : u \in teamMemberIds \cup {createdBy}}

\* the rows createProject inserts into project_members
TeamMembers(p, createdBy, teamMemberIds) ==
    {MemberRow(p, createdBy, "Owner")} \cup {MemberRow(p, u, "Member") : u \in teamMemberIds}

\* createProject: it inserts the creator as Owner and the team as Members,
\* in one insert, and returns
createProject_insertTeam(c) ==
    /\ pc[c] = "insertTeam"
    /\ UNCHANGED <<taskvars, genvars, boardvars>>
    /\ UNCHANGED <<project_invitations, nextInvId>>
    /\ IF call[c].projectId \notin projects
       THEN /\ UNCHANGED project_members
            /\ Return(c, ErrForeignKey)
       ELSE IF \/ call[c].createdBy \in call[c].teamMemberIds
               \/ \E u \in call[c].teamMemberIds \cup {call[c].createdBy} :
                     MemberConflicts(project_members, call[c].projectId, u) # {}
       THEN /\ UNCHANGED project_members
            /\ Return(c, ErrUniqueViolation)
       ELSE /\ project_members' = project_members \cup
                  TeamMembers(call[c].projectId, call[c].createdBy, call[c].teamMemberIds)
            /\ Return(c, OK)

\* handleCreateProject: createProject(name, description, template, user.id,
\* selectedTeamIds)
createProject(c) ==
    \/ \E p \in NewProjects, teamMemberIds \in SUBSET Users :
          createProject_insert(c, p, UserOf(c), teamMemberIds)
    \/ createProject_insertTeam(c)

\* deleteProject: projects.delete().eq('id', projectId), and the cascade of
\* the foreign keys
deleteProject(c, p) ==
    /\ pc[c] = "idle"
    /\ UNCHANGED <<genvars, nextInvId, nextTaskId, progress>>
    /\ UNCHANGED <<nextMilestoneId, nextCommentId>>
    /\ projects' = projects \ {p}
    /\ project_members' = RowsAfterProjectDelete(project_members, projects')
    /\ project_invitations' = RowsAfterProjectDelete(project_invitations, projects')
    /\ milestones' = RowsAfterProjectDelete(milestones, projects')
    /\ tasks' = RowsAfterProjectDelete(tasks, projects')
    /\ comments' = CommentsAfterDelete(comments, tasks')
    /\ attachments' = AttachmentsAfterDelete(attachments, comments')
    /\ Return(c, OK)

\* removeProjectMember: project_members.delete().eq('project_id', projectId)
\* .eq('user_id', userId)
removeProjectMember(c, p, u) ==
    /\ pc[c] = "idle"
    /\ UNCHANGED <<taskvars, genvars, boardvars>>
    /\ UNCHANGED <<project_invitations, nextInvId>>
    /\ project_members' =
          {m \in project_members : ~(m.project_id = p /\ m.user_id = u)}
    /\ Return(c, OK)

\* createComment: it inserts the comment row; without attachments it returns
createComment_insert(c, id, userId, n) ==
    /\ pc[c] = "idle"
    /\ nextCommentId <= MaxComments
    /\ UNCHANGED <<invvars, taskvars, genvars>>
    /\ UNCHANGED <<projects, milestones, nextMilestoneId, attachments>>
    /\ IF ~CommentInsertPolicy(UserOf(c), CommentRow(nextCommentId, id, userId))
       THEN /\ UNCHANGED <<comments, nextCommentId>>
            /\ Return(c, ErrRowLevelSecurity)
       ELSE IF TaskById(tasks, id) = {}
       THEN /\ UNCHANGED <<comments, nextCommentId>>
            /\ Return(c, ErrForeignKey)
       ELSE /\ comments' = comments \cup {CommentRow(nextCommentId, id, userId)}
            /\ nextCommentId' = nextCommentId + 1
            /\ IF n = 0
               THEN Return(c, OK)
               ELSE Start(c, "insertAttachments",
                          [op |-> "createComment", commentId |-> nextCommentId,
                           attachments |-> n])

\* createComment: it inserts the attachment rows and returns
createComment_attachments(c) ==
    /\ pc[c] = "insertAttachments"
    /\ UNCHANGED <<invvars, taskvars, genvars>>
    /\ UNCHANGED <<projects, milestones, nextMilestoneId, comments, nextCommentId>>
    /\ IF \E k \in comments : k.id = call[c].commentId
       THEN /\ attachments' = attachments \cup
                  {AttachmentRow(call[c].commentId, n) : n \in 1..call[c].attachments}
            /\ Return(c, OK)
       ELSE /\ UNCHANGED attachments
            /\ Return(c, ErrForeignKey)

\* handleAddComment: createComment(taskId, user.id, content, attachments)
createComment(c) ==
    \/ \E t \in tasks, n \in 0..MaxAttachments : createComment_insert(c, t.id, UserOf(c), n)
    \/ createComment_attachments(c)

(***************************************************************************)
(* The row-level security policies, and the invitation handlers of App run *)
(* under them by the user signed in at a client, to completion.            *)
(***************************************************************************)
\* EXISTS (SELECT 1 FROM project_members WHERE project_id = ... AND
\* user_id = auth.uid() AND role = 'Owner')
IsOwner(members, p, uid) ==
    \E m \in members : m.project_id = p /\ m.user_id = uid /\ m.role = "Owner"

\* project_invitations FOR SELECT
InvitationSelectPolicy(uid, members, i) ==
    \/ i.invited_user_id = uid
    \/ i.invited_by = uid
    \/ IsOwner(members, i.project_id, uid)

\* project_invitations FOR INSERT
InvitationInsertPolicy(uid, members, i) == IsOwner(members, i.project_id, uid)

\* project_invitations FOR UPDATE
InvitationUpdatePolicy(uid, i) == i.invited_user_id = uid

\* project_invitations FOR DELETE
InvitationDeletePolicy(uid, members, i) ==
    \/ i.invited_user_id = uid
    \/ i.invited_by = uid
    \/ IsOwner(members, i.project_id, uid)

\* the invitations a select of user uid sees
VisibleInvitations(uid) ==
    {i \in project_invitations : InvitationSelectPolicy(uid, project_members, i)}

\* handleInviteUser: createProjectInvitation(projectId, userId, user.id, role)
handleInviteUser(c, p, u, r) ==
    /\ pc[c] = "idle"
    /\ nextInvId <= MaxInvitations
    /\ UNCHANGED <<taskvars, genvars, boardvars>>
    /\ UNCHANGED project_members
    /\ LET uid == UserOf(c)
           row == InvitationRow(nextInvId, p, u, uid, r, "pending")
           outcome ==
              IF ExistingMember(project_members, p, u) # {} THEN ErrAlreadyMember
              ELSE IF ExistingInvitation(VisibleInvitations(uid), p, u) # {}
                   THEN ErrPendingInvitation
              ELSE IF ~InvitationInsertPolicy(uid, project_members, row)
                   THEN ErrRowLevelSecurity
              ELSE IF p \notin projects THEN ErrForeignKey
              ELSE IF InvitationConflicts(project_invitations, p, u) # {}
                   THEN ErrUniqueViolation
              ELSE OK
       IN /\ IF outcome = OK
             THEN /\ project_invitations' = project_invitations \cup {row}
                  /\ nextInvId' = nextInvId + 1
             ELSE UNCHANGED <<project_invitations, nextInvId>>
          /\ Return(c, outcome)

\* handleAcceptInvitation: acceptProjectInvitation(invitationId); the update
\* of a row the policy hides matches no row and is no error
handleAcceptInvitation(c, id) ==
    /\ pc[c] = "idle"
    /\ UNCHANGED <<taskvars, genvars, boardvars>>
    /\ UNCHANGED nextInvId
    /\ LET uid == UserOf(c)
           found == PendingById(VisibleInvitations(uid), id)
       IN IF Cardinality(found) # 1
          THEN /\ UNCHANGED <<project_members, project_invitations>>
               /\ Return(c, ErrNoSingleRow)
          ELSE LET inv == CHOOSE i \in found : TRUE
                   row == MemberRow(inv.project_id, inv.invited_user_id, inv.role)
               IN IF \/ ~MemberPolicy(uid, row)
                     \/ MemberConflicts(project_members, inv.project_id,
                                        inv.invited_user_id) # {}
                  THEN /\ UNCHANGED <<project_members, project_invitations>>
                       /\ Return(c, ErrUniqueViolation)
                  ELSE /\ project_members' = project_members \cup {row}
                       /\ project_invitations' =
                             SetStatus(project_invitations,
                                       {i \in AcceptMatch(project_invitations, id) :
                                           InvitationUpdatePolicy(uid, i)},
                                       "accepted")
                       /\ Return(c, OK)

\* handleDeclineInvitation: declineProjectInvitation(invitationId)
handleDeclineInvitation(c, id) ==
    /\ pc[c] = "idle"
    /\ UNCHANGED <<taskvars, genvars, boardvars>>
    /\ UNCHANGED <<project_members, nextInvId>>
    /\ project_invitations' =
          SetStatus(project_invitations,
                    {i \in DeclineMatch(project_invitations, id) :
                        InvitationUpdatePolicy(UserOf(c), i)},
                    "declined")
    /\ Return(c, OK)

\* handleCancelInvitation: cancelProjectInvitation(invitationId)
handleCancelInvitation(c, id) ==
    /\ pc[c] = "idle"
    /\ UNCHANGED <<taskvars, genvars, boardvars>>
    /\ UNCHANGED <<project_members, nextInvId>>
    /\ project_invitations' =
          project_invitations \
             {i \in CancelMatch(project_invitations, id) :
                 InvitationDeletePolicy(UserOf(c), project_members, i)}
    /\ Return(c, OK)

(***************************************************************************)
(* App: the handlers of AppContent, run in the session of one user.  A     *)
(* handler awaits a function of the data-access layer, then loadProjects,  *)
(* and ends in its last statements or in its catch block.  The function of *)
(* the data-access layer is one step here; F is the set of its remote      *)
(* calls that fail, numbered in the order of the code.                     *)
(***************************************************************************)
\* user.id of useAuth
SessionUser == "u1"

\* the remote calls of a function that makes k of them, and the sets of
\* those that fail
FailureSets(k) == {F \in SUBSET (1..k) : Cardinality(F) <= MaxFailures}

\* dbToTask: the task of the client for a row of tasks; comments is []
dbToTask(row) ==
    [id |-> row.id, status |-> row.status, assigneeId |-> row.assignee_id,
     milestoneId |-> row.milestone_id, comments |-> {}]

\* dbToProject: the project of the client for a row of projects and the
\* rows of its team; tasks and milestones are []
dbToProject(row, teamData) ==
    [id |-> row.id, progress |-> row.progress,
     team |-> {[userId |-> tm.user_id, role |-> tm.role] : tm \in teamData},
     tasks |-> {}, milestones |-> {}]

\* a row of the relation projects, of which the model follows progress
ProjectRow(p) == [id |-> p, progress |-> progress[p]]

\* view, selectedProjectId and projects of App
AppState == [view |-> view, selectedProjectId |-> selectedProjectId,
             projects |-> clientProjects]

\* the notifications of type error
ErrorToasts ==
    {"Failed to create project", "Failed to update project", "Failed to delete project",
     "Failed to update task", "Failed to add task", "Failed to delete task",
     "Failed to add comment", "Failed to create milestone", "Failed to move task",
     "Failed to send invitation", "Failed to cancel invitation",
     "Failed to accept invitation", "Failed to decline invitation",
     "Failed to load projects",
     ErrAlreadyMember, ErrPendingInvitation, ErrFetch, ErrUniqueViolation,
     ErrForeignKey, ErrRowLevelSecurity, ErrNoSingleRow}

\* the handler of client c goes on at label; shown are the notifications it
\* adds in this step
AppGoto(c, label, locals, shown) ==
    /\ pc' = [pc EXCEPT ![c] = label]
    /\ call' = [call EXCEPT ![c] = locals]
    /\ toasts' = [toasts EXCEPT ![c] = @ \cup shown]
    /\ UNCHANGED <<result, pre>>

\* what a handler awaits after the function of the data-access layer:
\* loadProjects, and for handleInviteUser getProjectInvitations, for
\* handleDeclineInvitation loadUserInvitations
AfterCall(handler) ==
    IF handler = "handleInviteUser" THEN "getProjectInvitations"
    ELSE IF handler = "handleDeclineInvitation" THEN "loadUserInvitations"
    ELSE "getProjects_members"

\* what a handler awaits after loadProjects: handleAcceptInvitation
\* loadUserInvitations, the others nothing
AfterLoad(handler) ==
    IF handler = "handleAcceptInvitation" THEN "loadUserInvitations" ELSE "tail"

\* the handler of client c ends with result r
AppReturn(c, shown, r) ==
    /\ pc' = [pc EXCEPT ![c] = "idle"]
    /\ call' = [call EXCEPT ![c] = NoCall]
    /\ toasts' = [toasts EXCEPT ![c] = @ \cup shown]
    /\ result' = r
    /\ UNCHANGED pre

\* client c starts handler: the awaited function has thrown error (OK when it
\* has not), failed tells whether one of its remote calls has failed, faults
\* counts the remote calls of getProjects that fail
AppStart(c, handler, error, failed, locals) ==
    /\ pc' = [pc EXCEPT ![c] = IF error = OK THEN AfterCall(handler) ELSE "catch"]
    /\ call' = [call EXCEPT ![c] =
                  [op |-> "handler", handler |-> handler, error |-> error,
                   failed |-> failed, before |-> AppState, faults |-> 0] @@ locals]
    /\ toasts' = [toasts EXCEPT ![c] = {}]
    /\ UNCHANGED <<result, pre, view, selectedProjectId, clientProjects>>

\* updateProjectProgress(p) over the rows given, when its select is remote
\* call i and its update remote call j of F: a select that fails leaves
\* tasks null and 0 is written; an update that fails writes nothing
ProgressWritten(F, i, j, rows, p) ==
    IF j \in F \/ p \notin projects THEN progress
    ELSE [progress EXCEPT ![p] = IF i \in F THEN 0
                                 ELSE ComputeProgress(TasksOf(rows, p))]

\* the project of task id, for the select of project_id in updateTask and
\* deleteTask; Undefined when the select, remote call i of F, gives no row
ProjectOfTask(F, i, id) ==
    IF i \in F \/ TaskById(tasks, id) = {} THEN Undefined
    ELSE (CHOOSE t \in TaskById(tasks, id) : TRUE).project_id

\* handleAddTask: createTask(projectId, taskData); 1 the select of the
\* highest position, whose error is not read, 2 the insert
handleAddTask_createTask(c, p, taskData, F) ==
    /\ pc[c] = "idle"
    /\ nextTaskId <= MaxTasks
    /\ UNCHANGED <<invvars, genvars, boardvars, progress>>
    /\ LET position == (IF 1 \in F THEN 0 ELSE MaxPosition(tasks, p)) + 1
           row == TaskRow(nextTaskId, p, InsertStatus(taskData.status), position,
                          InsertUser(taskData.assigneeId), InsertId(taskData.milestoneId))
           error == IF 2 \in F THEN ErrFetch
                    ELSE IF ~TaskPolicy(SessionUser, row) THEN ErrRowLevelSecurity
                    ELSE IF p \notin projects THEN ErrForeignKey
                    ELSE OK
       IN /\ IF error = OK
             THEN /\ tasks' = tasks \cup {row}
                  /\ nextTaskId' = nextTaskId + 1
             ELSE UNCHANGED <<tasks, nextTaskId>>
          /\ AppStart(c, "handleAddTask", error, F # {}, [projectId |-> p])

\* updateTask(taskId, updates) as a handler calls it; 1 the update, 2 the
\* select of the project, 3 and 4 the select and the update of
\* updateProjectProgress, whose errors are not read
updateTask_handler(c, handler, id, updates, F) ==
    /\ pc[c] = "idle"
    /\ UNCHANGED <<invvars, genvars, boardvars, nextTaskId>>
    /\ LET error == IF 1 \in F THEN ErrFetch ELSE OK
           p == ProjectOfTask(F, 2, id)
       IN /\ tasks' = IF error = OK THEN ApplyUpdates(tasks, id, updates) ELSE tasks
          /\ progress' = IF error = OK /\ p # Undefined
                         THEN ProgressWritten(F, 3, 4, tasks', p)
                         ELSE progress
          /\ AppStart(c, handler, error, F # {}, [taskId |-> id, updates |-> updates])

\* handleUpdateTask: updateTask(taskId, updates)
handleUpdateTask_updateTask(c, id, updates, F) ==
    updateTask_handler(c, "handleUpdateTask", id, updates, F)

\* handleMoveTask: updateTask(taskId, { milestoneId: newMilestoneId })
handleMoveTask_updateTask(c, id, newMilestoneId, F) ==
    updateTask_handler(c, "handleMoveTask", id,
                       TaskData(Undefined, Undefined, newMilestoneId), F)

\* handleDeleteTask: deleteTask(taskId); 1 the select of the project, 2 the
\* delete with its cascade, 3 and 4 updateProjectProgress
handleDeleteTask_deleteTask(c, id, F) ==
    /\ pc[c] = "idle"
    /\ UNCHANGED <<invvars, genvars, nextTaskId>>
    /\ UNCHANGED <<projects, milestones, nextMilestoneId, nextCommentId>>
    /\ LET error == IF 2 \in F THEN ErrFetch ELSE OK
           p == ProjectOfTask(F, 1, id)
       IN /\ tasks' = IF error = OK THEN tasks \ TaskById(tasks, id) ELSE tasks
          /\ comments' = CommentsAfterDelete(comments, tasks')
          /\ attachments' = AttachmentsAfterDelete(attachments, comments')
          /\ progress' = IF error = OK /\ p # Undefined
                         THEN ProgressWritten(F, 3, 4, tasks', p)
                         ELSE progress
          /\ AppStart(c, "handleDeleteTask", error, F # {}, [taskId |-> id])

\* handleCreateProject: createProject(data.name, data.description,
\* data.template, user.id, data.selectedTeamIds); 1 the insert of the
\* project, 2 the insert of the team, 3 the team query of dbToProject, whose
\* error is not read; suggested is data.suggestedTasks.length
handleCreateProject_createProject(c, p, teamMemberIds, suggested, F) ==
    /\ pc[c] = "idle"
    /\ p \notin DOMAIN progress
    /\ UNCHANGED <<genvars, tasks, nextTaskId, project_invitations, nextInvId>>
    /\ UNCHANGED <<milestones, nextMilestoneId, comments, nextCommentId, attachments>>
    /\ LET team == TeamMembers(p, SessionUser, teamMemberIds)
           error == IF 1 \in F \/ 2 \in F THEN ErrFetch
                    ELSE IF SessionUser \in teamMemberIds THEN ErrUniqueViolation
                    ELSE OK
       IN /\ projects' = IF 1 \in F THEN projects ELSE projects \cup {p}
          /\ progress' = IF 1 \in F THEN progress ELSE (p :> 0) @@ progress
          /\ project_members' = IF error = OK THEN project_members \cup team
                                ELSE project_members
          /\ pc' = [pc EXCEPT ![c] =
                      IF error # OK THEN "catch"
                      ELSE IF suggested = 0 THEN AfterCall("handleCreateProject")
                      ELSE "handleCreateProject_createTask"]
          /\ call' = [call EXCEPT ![c] =
                        [op |-> "handler", handler |-> "handleCreateProject",
                         error |-> error, failed |-> F # {}, before |-> AppState, faults |-> 0,
                         projectId |-> p, teamMemberIds |-> teamMemberIds,
                         suggested |-> suggested, created |-> <<>>,
                         inserted |-> 1 \notin F]]
          /\ toasts' = [toasts EXCEPT ![c] = {}]
          /\ UNCHANGED <<result, pre, view, selectedProjectId, clientProjects>>

\* handleCreateProject: createTask(newProject.id, task) of the next task of
\* data.suggestedTasks; 1 the select of the highest position, 2 the insert
handleCreateProject_createTask(c, F) ==
    /\ pc[c] = "handleCreateProject_createTask"
    /\ UNCHANGED <<invvars, genvars, boardvars, progress>>
    /\ UNCHANGED <<result, pre, view, selectedProjectId, clientProjects, toasts>>
    /\ LET p == call[c].projectId
           position == (IF 1 \in F THEN 0 ELSE MaxPosition(tasks, p)) + 1
           row == TaskRow(nextTaskId, p, "Todo", position, NullUser, NullId)
           error == IF 2 \in F THEN ErrFetch
                    ELSE IF p \notin projects THEN ErrForeignKey
                    ELSE OK
           created == Append(call[c].created, nextTaskId)
       IN /\ IF error = OK
             THEN /\ tasks' = tasks \cup {row}
                  /\ nextTaskId' = nextTaskId + 1
             ELSE UNCHANGED <<tasks, nextTaskId>>
          /\ pc' = [pc EXCEPT ![c] =
                      IF error # OK THEN "catch"
                      ELSE IF Len(created) = call[c].suggested
                           THEN AfterCall("handleCreateProject")
                      ELSE "handleCreateProject_createTask"]
          /\ call' = [call EXCEPT ![c] =
                        [call[c] EXCEPT
                           !.error = error,
                           !.failed = @ \/ F # {},
                           !.created = IF error = OK THEN created ELSE @]]

\* handleEditProject: updateProject(projectId, updates), which writes name
\* and description; 1 the update
handleEditProject_updateProject(c, p, F) ==
    /\ pc[c] = "idle"
    /\ UNCHANGED <<dbvars, genvars>>
    /\ AppStart(c, "handleEditProject", IF 1 \in F THEN ErrFetch ELSE OK, F # {},
                [projectId |-> p])

\* handleDeleteProject: deleteProject(projectId); 1 the delete with its
\* cascade
handleDeleteProject_deleteProject(c, p, F) ==
    /\ pc[c] = "idle"
    /\ UNCHANGED <<genvars, nextInvId, nextTaskId, progress>>
    /\ UNCHANGED <<nextMilestoneId, nextCommentId>>
    /\ projects' = IF 1 \in F THEN projects ELSE projects \ {p}
    /\ project_members' = RowsAfterProjectDelete(project_members, projects')
    /\ project_invitations' = RowsAfterProjectDelete(project_invitations, projects')
    /\ milestones' = RowsAfterProjectDelete(milestones, projects')
    /\ tasks' = RowsAfterProjectDelete(tasks, projects')
    /\ comments' = CommentsAfterDelete(comments, tasks')
    /\ attachments' = AttachmentsAfterDelete(attachments, comments')
    /\ AppStart(c, "handleDeleteProject", IF 1 \in F THEN ErrFetch ELSE OK, F # {},
                [projectId |-> p])

\* handleAddComment: createComment(taskId, user.id, content, attachments)
\* with n attachments; 1 the insert of the comment, 2 the insert of the
\* attachments, made when there are any
handleAddComment_createComment(c, id, n, F) ==
    /\ pc[c] = "idle"
    /\ nextCommentId <= MaxComments
    /\ n = 0 => 2 \notin F
    /\ UNCHANGED <<invvars, taskvars, genvars>>
    /\ UNCHANGED <<projects, milestones, nextMilestoneId>>
    /\ LET row == CommentRow(nextCommentId, id, SessionUser)
           commentError == IF 1 \in F THEN ErrFetch
                           ELSE IF ~CommentInsertPolicy(SessionUser, row)
                                THEN ErrRowLevelSecurity
                           ELSE IF TaskById(tasks, id) = {} THEN ErrForeignKey
                           ELSE OK
           error == IF commentError # OK THEN commentError
                    ELSE IF 2 \in F THEN ErrFetch
                    ELSE OK
       IN /\ IF commentError = OK
             THEN /\ comments' = comments \cup {row}
                  /\ nextCommentId' = nextCommentId + 1
             ELSE UNCHANGED <<comments, nextCommentId>>
          /\ attachments' = IF error = OK
                            THEN attachments \cup
                                    {AttachmentRow(nextCommentId, k) : k \in 1..n}
                            ELSE attachments
          /\ AppStart(c, "handleAddComment", error, F # {},
                      [taskId |-> id, commentId |-> nextCommentId, attachments |-> n])

\* handleAddMilestone: createMilestone(projectId, title, dueDate); 1 the
\* insert
handleAddMilestone_createMilestone(c, p, F) ==
    /\ pc[c] = "idle"
    /\ nextMilestoneId <= MaxMilestones
    /\ UNCHANGED <<invvars, taskvars, genvars>>
    /\ UNCHANGED <<projects, comments, nextCommentId, attachments>>
    /\ LET row == MilestoneRow(nextMilestoneId, p)
           error == IF 1 \in F THEN ErrFetch
                    ELSE IF ~TaskPolicy(SessionUser, row) THEN ErrRowLevelSecurity
                    ELSE IF p \notin projects THEN ErrForeignKey
                    ELSE OK
       IN /\ IF error = OK
             THEN /\ milestones' = milestones \cup {row}
                  /\ nextMilestoneId' = nextMilestoneId + 1
             ELSE UNCHANGED <<milestones, nextMilestoneId>>
          /\ AppStart(c, "handleAddMilestone", error, F # {}, [projectId |-> p])

\* handleInviteUser: createProjectInvitation(projectId, userId, user.id,
\* role); 1 the membership query and 2 the pending-invitation query, whose
\* errors are not read, 3 the insert
handleInviteUser_createProjectInvitation(c, p, u, r, F) ==
    /\ pc[c] = "idle"
    /\ nextInvId <= MaxInvitations
    /\ UNCHANGED <<taskvars, genvars, boardvars>>
    /\ UNCHANGED project_members
    /\ LET row == InvitationRow(nextInvId, p, u, SessionUser, r, "pending")
           error ==
              IF 1 \notin F /\ ExistingMember(project_members, p, u) # {}
                 THEN ErrAlreadyMember
              ELSE IF 2 \notin F /\ ExistingInvitation(VisibleInvitations(SessionUser), p, u) # {}
                 THEN ErrPendingInvitation
              ELSE IF 3 \in F THEN ErrFetch
              ELSE IF ~InvitationInsertPolicy(SessionUser, project_members, row)
                 THEN ErrRowLevelSecurity
              ELSE IF p \notin projects THEN ErrForeignKey
              ELSE IF InvitationConflicts(project_invitations, p, u) # {}
                 THEN ErrUniqueViolation
              ELSE OK
       IN /\ IF error = OK
             THEN /\ project_invitations' = project_invitations \cup {row}
                  /\ nextInvId' = nextInvId + 1
             ELSE UNCHANGED <<project_invitations, nextInvId>>
          /\ AppStart(c, "handleInviteUser", error, F # {}, [projectId |-> p])

\* handleInviteUser: getProjectInvitations(projectId), which throws when its
\* query fails
handleInviteUser_getProjectInvitations(c, fails) ==
    /\ pc[c] = "getProjectInvitations"
    /\ UNCHANGED <<dbvars, genvars, view, selectedProjectId, clientProjects>>
    /\ IF fails
       THEN AppGoto(c, "catch", [call[c] EXCEPT !.failed = TRUE, !.error = ErrFetch], {})
       ELSE AppGoto(c, "tail", call[c], {})

\* handleCancelInvitation: cancelProjectInvitation(invitationId); 1 the
\* delete
handleCancelInvitation_cancelProjectInvitation(c, id, F) ==
    /\ pc[c] = "idle"
    /\ UNCHANGED <<taskvars, genvars, boardvars>>
    /\ UNCHANGED <<project_members, nextInvId>>
    /\ project_invitations' =
          IF 1 \in F THEN project_invitations
          ELSE project_invitations \
                  {i \in CancelMatch(project_invitations, id) :
                      InvitationDeletePolicy(SessionUser, project_members, i)}
    /\ AppStart(c, "handleCancelInvitation", IF 1 \in F THEN ErrFetch ELSE OK, F # {},
                [invitationId |-> id])

\* handleAcceptInvitation: acceptProjectInvitation(invitationId); 1 the
\* select of the pending invitation, 2 the insert of the membership, 3 the
\* update of the status
handleAcceptInvitation_acceptProjectInvitation(c, id, F) ==
    /\ pc[c] = "idle"
    /\ UNCHANGED <<taskvars, genvars, boardvars>>
    /\ UNCHANGED nextInvId
    /\ LET found == PendingById(VisibleInvitations(SessionUser), id)
           inv == CHOOSE i \in found : TRUE
           selectError == IF 1 \in F THEN ErrFetch
                          ELSE IF Cardinality(found) # 1 THEN ErrNoSingleRow
                          ELSE OK
           memberError ==
              IF selectError # OK THEN selectError
              ELSE IF 2 \in F THEN ErrFetch
              ELSE IF inv.project_id \notin projects THEN ErrForeignKey
              ELSE IF MemberConflicts(project_members, inv.project_id,
                                      inv.invited_user_id) # {}
                 THEN ErrUniqueViolation
              ELSE OK
           error == IF memberError # OK THEN memberError
                    ELSE IF 3 \in F THEN ErrFetch
                    ELSE OK
       IN /\ project_members' =
                IF memberError = OK
                THEN project_members \cup
                        {MemberRow(inv.project_id, inv.invited_user_id, inv.role)}
                ELSE project_members
          /\ project_invitations' =
                IF error = OK
                THEN SetStatus(project_invitations,
                               {i \in AcceptMatch(project_invitations, id) :
                                   InvitationUpdatePolicy(SessionUser, i)},
                               "accepted")
                ELSE project_invitations
          /\ AppStart(c, "handleAcceptInvitation", error, F # {}, [invitationId |-> id])

\* handleDeclineInvitation: declineProjectInvitation(invitationId); 1 the
\* update
handleDeclineInvitation_declineProjectInvitation(c, id, F) ==
    /\ pc[c] = "idle"
    /\ UNCHANGED <<taskvars, genvars, boardvars>>
    /\ UNCHANGED <<project_members, nextInvId>>
    /\ project_invitations' =
          IF 1 \in F THEN project_invitations
          ELSE SetStatus(project_invitations,
                         {i \in DeclineMatch(project_invitations, id) :
                             InvitationUpdatePolicy(SessionUser, i)},
                         "declined")
    /\ AppStart(c, "handleDeclineInvitation", IF 1 \in F THEN ErrFetch ELSE OK, F # {},
                [invitationId |-> id])

\* the effect run when the user is known: loadProjects()
useEffect_loadProjects(c) ==
    /\ pc[c] = "idle"
    /\ UNCHANGED <<dbvars, genvars>>
    /\ AppStart(c, "useEffect", OK, FALSE, [projectId |-> NoProject])

\* handleSelectProject: setSelectedProjectId(id), setView(PROJECT_DETAIL);
\* the navigation is followed while slot c runs no handler
handleSelectProject(c, id) ==
    /\ pc[c] = "idle"
    /\ UNCHANGED <<dbvars, genvars, pc, call, result, pre, clientProjects, toasts>>
    /\ selectedProjectId' = id
    /\ view' = "PROJECT_DETAIL"

\* onBack of ProjectDetail and onCancel of Wizard set the view DASHBOARD,
\* onNewProject of Dashboard sets WIZARD
setView(c, v) ==
    /\ pc[c] = "idle"
    /\ UNCHANGED <<dbvars, genvars, pc, call, result, pre, clientProjects, toasts>>
    /\ UNCHANGED selectedProjectId
    /\ view # v
    /\ view' = v

\* loadProjects: the catch block, after getProjects or getProjectInvitations
\* has thrown; the handler goes on after its `await loadProjects()`
loadProjects_catch(c) ==
    AppGoto(c, AfterLoad(call[c].handler), [call[c] EXCEPT !.failed = TRUE],
            {"Failed to load projects"})

\* getProjects: the project ids of the memberships of the user; without any
\* it returns [], which loadProjects sets
getProjects_members(c, fails) ==
    /\ pc[c] = "getProjects_members"
    /\ fails => MaxFailures > 0
    /\ UNCHANGED <<dbvars, genvars, view, selectedProjectId>>
    /\ LET projectIds == {m.project_id : m \in {r \in project_members :
                                                  r.user_id = SessionUser}}
       IN IF fails
          THEN /\ UNCHANGED clientProjects
               /\ loadProjects_catch(c)
          ELSE IF projectIds = {}
          THEN /\ clientProjects' = {}
               /\ AppGoto(c, AfterLoad(call[c].handler), call[c], {})
          ELSE /\ UNCHANGED clientProjects
               /\ AppGoto(c, "getProjects_projects",
                          [projectIds |-> projectIds] @@ call[c], {})

\* getProjects: the rows of these projects
getProjects_projects(c, fails) ==
    /\ pc[c] = "getProjects_projects"
    /\ fails => MaxFailures > 0
    /\ UNCHANGED <<dbvars, genvars, view, selectedProjectId, clientProjects>>
    /\ IF fails
       THEN loadProjects_catch(c)
       ELSE AppGoto(c, "getProjects_team",
                    [rows |-> {ProjectRow(p) : p \in call[c].projectIds \cap projects}]
                    @@ call[c], {})

\* getProjects: dbToProject of every row; the team query of the projects of
\* failing fails, its error is not read and the team is []
getProjects_team(c, failing) ==
    /\ pc[c] = "getProjects_team"
    /\ Cardinality(failing) <= MaxFailures
    /\ UNCHANGED <<dbvars, genvars, view, selectedProjectId, clientProjects>>
    /\ AppGoto(c, "getProjects_tasks",
               [call[c] EXCEPT
                  !.failed = @ \/ failing # {},
                  !.faults = @ + Cardinality(failing),
                  !.rows = {dbToProject(row,
                                IF row.id \in failing THEN {}
                                ELSE {m \in project_members : m.project_id = row.id}) :
                            row \in call[c].rows}],
               {})

\* getProjects: the tasks of these projects; the error is not read and a
\* query that fails gives no task
getProjects_tasks(c, fails) ==
    /\ pc[c] = "getProjects_tasks"
    /\ fails => call[c].faults < MaxFailures
    /\ UNCHANGED <<dbvars, genvars, view, selectedProjectId, clientProjects>>
    /\ AppGoto(c, "getProjects_milestones",
               [allTasks |-> IF fails THEN {}
                             ELSE {t \in tasks : t.project_id \in call[c].projectIds}]
               @@ [call[c] EXCEPT !.failed = @ \/ fails,
                                  !.faults = IF fails THEN @ + 1 ELSE @],
               {})

\* getProjects: the milestones of these projects, read like the tasks; it
\* returns the projects with their tasks and milestones and loadProjects
\* sets them
getProjects_milestones(c, fails) ==
    /\ pc[c] = "getProjects_milestones"
    /\ fails => call[c].faults < MaxFailures
    /\ UNCHANGED <<dbvars, genvars, view, selectedProjectId>>
    /\ LET allMilestones == IF fails THEN {}
                            ELSE {m \in milestones : m.project_id \in call[c].projectIds}
       IN clientProjects' =
             {[project EXCEPT
                 !.tasks = {dbToTask(t) : t \in {r \in call[c].allTasks :
                                                   r.project_id = project.id}},
                 !.milestones = {m.id : m \in {r \in allMilestones :
                                                 r.project_id = project.id}}] :
              project \in call[c].rows}
    /\ AppGoto(c, "loadProjects_invitations", [call[c] EXCEPT !.failed = @ \/ fails], {})

\* loadProjects: getProjectInvitations of every project loaded
loadProjects_invitations(c, fails) ==
    /\ pc[c] = "loadProjects_invitations"
    /\ UNCHANGED <<dbvars, genvars, view, selectedProjectId, clientProjects>>
    /\ IF fails /\ call[c].rows # {}
       THEN loadProjects_catch(c)
       ELSE AppGoto(c, AfterLoad(call[c].handler), call[c], {})

\* loadUserInvitations: getUserInvitations(user.id); its catch block shows
\* nothing
loadUserInvitations(c, fails) ==
    /\ pc[c] = "loadUserInvitations"
    /\ UNCHANGED <<dbvars, genvars, view, selectedProjectId, clientProjects>>
    /\ AppGoto(c, "tail", [call[c] EXCEPT !.failed = @ \/ fails], {})

\* handleInviteUser: the notification shown for the outcome r of createProjectInvitation
handleInviteUser_toast(r) ==
    IF r = OK THEN "Invitation sent"
    ELSE IF r # "" THEN r
    ELSE "Failed to send invitation"

\* the notification of the catch block of a handler
CatchToast(handler, error) ==
    CASE handler = "handleCreateProject" -> "Failed to create project"
      [] handler = "handleEditProject" -> "Failed to update project"
      [] handler = "handleDeleteProject" -> "Failed to delete project"
      [] handler = "handleUpdateTask" -> "Failed to update task"
      [] handler = "handleAddTask" -> "Failed to add task"
      [] handler = "handleDeleteTask" -> "Failed to delete task"
      [] handler = "handleAddComment" -> "Failed to add comment"
      [] handler = "handleAddMilestone" -> "Failed to create milestone"
      [] handler = "handleMoveTask" -> "Failed to move task"
      [] handler = "handleInviteUser" -> handleInviteUser_toast(error)
      [] handler = "handleCancelInvitation" -> "Failed to cancel invitation"
      [] handler = "handleAcceptInvitation" -> "Failed to accept invitation"
      [] OTHER -> "Failed to decline invitation"

\* the notification a handler ends with when nothing was thrown; "" for
\* none
SuccessToast(handler) ==
    CASE handler = "handleCreateProject" -> "Project created!"
      [] handler = "handleEditProject" -> "Project updated successfully"
      [] handler = "handleDeleteProject" -> "Project deleted"
      [] handler = "handleAddTask" -> "Task added"
      [] handler = "handleDeleteTask" -> "Task deleted"
      [] handler = "handleAddMilestone" -> "Milestone created"
      [] handler = "handleInviteUser" -> "Invitation sent"
      [] handler = "handleCancelInvitation" -> "Invitation canceled"
      [] handler = "handleAcceptInvitation" ->
            "Invitation accepted! Project added to your dashboard"
      [] handler = "handleDeclineInvitation" -> "Invitation declined"
      [] OTHER -> ""

\* the catch block of a handler
handler_catch(c) ==
    /\ pc[c] = "catch"
    /\ UNCHANGED <<dbvars, genvars, view, selectedProjectId, clientProjects>>
    /\ AppReturn(c, {CatchToast(call[c].handler, call[c].error)}, call[c].error)

\* the statements of a handler that follow its last await
handler_tail(c) ==
    /\ pc[c] = "tail"
    /\ UNCHANGED <<dbvars, genvars, clientProjects>>
    /\ view' = IF call[c].handler \in {"handleCreateProject", "handleDeleteProject"}
               THEN "DASHBOARD" ELSE view
    /\ selectedProjectId' = IF call[c].handler = "handleDeleteProject"
                            THEN NoProject ELSE selectedProjectId
    /\ AppReturn(c, {SuccessToast(call[c].handler)} \ {""}, OK)

(***************************************************************************)
(* generateProjectTasks                                                    *)
(***************************************************************************)
MAX_RETRIES == 3

\* the elements the service puts into its array: a well-formed suggestion,
\* and one without title and with a priority outside High/Medium/Low
ResponseItems ==
    {[isNull |-> FALSE, title |-> "Plan the work", priority |-> "High"],
     [isNull |-> FALSE, title |-> "", priority |-> "Urgent"]}

\* the JSON value null as an element of the array
NullItem == [isNull |-> TRUE, title |-> "", priority |-> ""]

\* t.title of the map callback throws a TypeError when t is null
TransformThrows(rawTasks) == \E k \in 1..Len(rawTasks) : rawTasks[k].isNull

ResponseArrays ==
    UNION {[1..n -> ResponseItems] : n \in 0..MaxResponseLen}
    \cup UNION {{a \in [1..n -> ResponseItems \cup {NullItem}] : TransformThrows(a)} :
                  n \in 1..MaxNullArrayLen}

\* what one generateContent call comes back with: it throws, or it returns
\* a text that is empty, is not JSON, or is the JSON text of a value; the
\* value is an array (isArray, with its elements) or something else
Responses ==
    {[kind |-> k, isArray |-> FALSE, value |-> <<>>] :
        k \in {"throws", "empty", "malformed", "json"}}
    \cup {[kind |-> "json", isArray |-> TRUE, value |-> a] : a \in ResponseArrays}

NoResponse == [kind |-> "none", isArray |-> FALSE, value |-> <<>>]

\* variant: an empty array passes the checks
ValidResponse_acceptsEmpty(r) ==
    /\ r.kind # "throws"
    /\ r.kind # "empty"
    /\ r.kind # "malformed"
    /\ r.isArray

\* the checks of one attempt: the call returns, the text is not empty,
\* JSON.parse succeeds, Array.isArray(rawTasks) and rawTasks.length is not 0
ValidResponse(r) ==
    /\ r.kind # "throws"
    /\ r.kind # "empty"
    /\ r.kind # "malformed"
    /\ r.isArray
    /\ Len(r.value) # 0

\* variant: the list is cut to the eight suggestions that were asked for
TransformTasks_firstEight(rawTasks) ==
    [index \in 1..(IF Len(rawTasks) > 8 THEN 8 ELSE Len(rawTasks)) |->
        [id |-> index - 1,
         title |-> IF rawTasks[index].title # "" THEN rawTasks[index].title
                   ELSE "Untitled Task",
         status |-> "Todo",
         priority |-> IF rawTasks[index].priority \in {"High", "Medium", "Low"}
                      THEN rawTasks[index].priority ELSE "Medium",
         dueInDays |-> index]]

\* rawTasks.map(...): one task per element of the array; id is the index of
\* `generated-<time>-<index>`, dueInDays the day of dueDate counted from today
TransformTasks(rawTasks) ==
    [index \in 1..Len(rawTasks) |->
        [id |-> index - 1,
         title |-> IF rawTasks[index].title # "" THEN rawTasks[index].title
                   ELSE "Untitled Task",
         status |-> "Todo",
         priority |-> IF rawTasks[index].priority \in {"High", "Medium", "Low"}
                      THEN rawTasks[index].priority ELSE "Medium",
         dueInDays |-> index]]

\* simulateAiResponse: the fixed list; ids -1..-5 stand for 'sim-1'..'sim-5',
\* dueInDays -1 for no dueDate
simulateAiResponse ==
    << [id |-> -1, title |-> "Initial Project Setup", status |-> "Todo", priority |-> "High",
        dueInDays |-> 0],
       [id |-> -2, title |-> "Research & Analysis", status |-> "Todo", priority |-> "Medium",
        dueInDays |-> -1],
       [id |-> -3, title |-> "Draft Requirements", status |-> "Todo", priority |-> "High",
        dueInDays |-> -1],
       [id |-> -4, title |-> "Team Kickoff Meeting", status |-> "Todo", priority |-> "Medium",
        dueInDays |-> -1],
       [id |-> -5, title |-> "Review Milestone 1", status |-> "Todo", priority |-> "Low",
        dueInDays |-> -1] >>

\* variant: the power is taken of the number of the attempt that failed,
\* counted from 0
Pow2_beforeIncrement(n) == IF n <= 1 THEN 1 ELSE IF n = 2 THEN 2 ELSE 4

\* Math.pow(2, n) for the values n takes
Pow2(n) == IF n = 0 THEN 1 ELSE IF n = 1 THEN 2 ELSE IF n = 2 THEN 4 ELSE 8

\* the call starts: it reads the API key and falls back if there is none
generateProjectTasks_start(key) ==
    /\ gen_pc = "start"
    /\ UNCHANGED <<invvars, taskvars, boardvars, appvars, pc, call, result, pre>>
    /\ apiKey' = key
    /\ attempt' = 0
    /\ UNCHANGED <<response, externalCalls, delays>>
    /\ IF ~key
       THEN /\ generated' = simulateAiResponse
            /\ gen_pc' = "done"
       ELSE /\ generated' = generated
            /\ gen_pc' = "attempt"

\* one pass of the retry loop: the external call, the checks, and either the
\* return of the transformed tasks or, when a check or the transformation
\* throws, the catch block
generateProjectTasks_attempt(r) ==
    /\ gen_pc = "attempt"
    /\ attempt < MAX_RETRIES
    /\ UNCHANGED <<invvars, taskvars, boardvars, appvars, pc, call, result, pre>>
    /\ UNCHANGED <<apiKey, delays>>
    /\ externalCalls' = externalCalls + 1
    /\ response' = r
    /\ IF ValidResponse(r) /\ ~TransformThrows(r.value)
       THEN /\ generated' = TransformTasks(r.value)
            /\ attempt' = attempt
            /\ gen_pc' = "done"
       ELSE /\ attempt' = attempt + 1
            /\ IF attempt + 1 >= MAX_RETRIES
               THEN /\ generated' = simulateAiResponse
                    /\ gen_pc' = "done"
               ELSE /\ generated' = generated
                    /\ gen_pc' = "backoff"

\* the wait of the catch block: setTimeout(res, 1000 * Math.pow(2, attempt))
generateProjectTasks_backoff ==
    /\ gen_pc = "backoff"
    /\ UNCHANGED <<invvars, taskvars, boardvars, appvars, pc, call, result, pre>>
    /\ UNCHANGED <<apiKey, attempt, response, generated, externalCalls>>
    /\ delays' = Append(delays, 1000 * Pow2(attempt))
    /\ gen_pc' = "attempt"

(***************************************************************************)
(* The invitation workflow: the calls of all clients interleave.           *)
(***************************************************************************)
Init ==
    /\ project_members = {MemberRow(p, CreatedBy(p), "Owner") : p \in Projects}
    /\ project_invitations = {}
    /\ nextInvId = 1
    /\ tasks = {}
    /\ progress = [p \in Projects |-> 0]
    /\ nextTaskId = 1
    /\ apiKey = FALSE
    /\ attempt = 0
    /\ gen_pc = "start"
    /\ response = NoResponse
    /\ generated = <<>>
    /\ externalCalls = 0
    /\ delays = <<>>
    /\ pc = [c \in Clients |-> "idle"]
    /\ call = [c \in Clients |-> NoCall]
    /\ result = "none"
    /\ pre = [c \in Clients |-> NoPre]
    /\ projects = Projects
    /\ milestones = {}
    /\ nextMilestoneId = 1
    /\ comments = {}
    /\ nextCommentId = 1
    /\ attachments = {}
    /\ view = "DASHBOARD"
    /\ selectedProjectId = NoProject
    /\ clientProjects = {}
    /\ toasts = [c \in Clients |-> {}]

Next ==
    \/ \E c \in Clients : createProjectInvitation(c)
    \/ \E c \in Clients : acceptProjectInvitation(c)
    \/ \E c \in Clients, id \in InvitationIds : declineProjectInvitation(c, id)
    \/ \E c \in Clients, id \in InvitationIds : cancelProjectInvitation(c, id)

Spec == Init /\ [][Next]_vars

(***************************************************************************)
(* Tasks: createTask, updateTask and deleteTask, run one call at a time.   *)
(***************************************************************************)
\* the one client whose calls run
SoleClient == "c1"

NextTasks ==
    \/ createTask(SoleClient)
    \/ updateTask(SoleClient)
    \/ deleteTask(SoleClient)
    \/ updateProjectProgress(SoleClient)

SpecTasks == Init /\ [][NextTasks]_vars

(***************************************************************************)
(* The board of a project: tasks with assignee and milestone, milestones,  *)
(* and moves, run one call at a time.                                      *)
(***************************************************************************)
\* the updates the controls of a task pass for a task of project p: one
\* field each; and an update of all three fields
BoardUpdates(p) ==
    {TaskData("Completed", Undefined, UndefinedId)}
    \cup {TaskData(Undefined, a, UndefinedId) : a \in TeamOf(project_members, p) \cup {Undefined}}
    \cup {TaskData(Undefined, Undefined, m) : m \in MilestonesOf(milestones, p) \cup {UndefinedId}}
    \cup {TaskData("In Progress", a, m) :
             a \in TeamOf(project_members, p), m \in MilestonesOf(milestones, p)}

\* the Unassigned entry of the assignee menus of the task row and of the
\* sidebar: onUpdateTask(project.id, task.id, { assigneeId: undefined })
Unassigned == TaskData(Undefined, Undefined, UndefinedId)

\* the task data of the add-task form of project p
BoardTaskData(p) ==
    {TaskData("Todo", a, m) : a \in TeamOf(project_members, p) \cup {Undefined},
                              m \in MilestonesOf(milestones, p) \cup {UndefinedId}}

\* the project open in ProjectDetail (selectedProjectId)
BoardProject == "p1"

NextBoard ==
    \/ \E p \in (IF nextTaskId <= MaxBoardTasks THEN {BoardProject} ELSE {}) :
          \E taskData \in BoardTaskData(p) : createTask_maxPos(SoleClient, p, taskData)
    \/ createTask_insert(SoleClient)
    \/ \E t \in tasks : \E updates \in BoardUpdates(t.project_id) :
          updateTask_update(SoleClient, t.id, updates)
    \/ updateTask_selectProject(SoleClient)
    \/ updateProjectProgress(SoleClient)
    \/ \E t \in tasks :
          \E m \in MilestonesOf(milestones, t.project_id) \cup {UndefinedId} :
             handleMoveTask(SoleClient, t.id, m)
    \/ handleAddMilestone(SoleClient, BoardProject)
    \/ handleInlineMilestoneCreate(SoleClient, BoardProject)
    \/ \E t \in tasks : handleSidebarInlineMilestoneCreate(SoleClient, t.project_id, t.id)
    \/ sidebarEffect(SoleClient)

SpecBoard == Init /\ [][NextBoard]_vars

(***************************************************************************)
(* Projects: creation and deletion of projects, tasks, comments,           *)
(* milestones and invitations, run by one client one call at a time, while *)
(* any client deletes a project of its user.                               *)
(***************************************************************************)
\* While(n, S): S as long as fewer than MaxProjectRows rows have been given an
\* id (n is the next id), and nothing after that
While(n, S) == IF n <= MaxProjectRows THEN S ELSE {}

\* the projects getProjects(userId) loads: those the user is a member of
ProjectsOf(userId) ==
    {p \in projects : \E m \in project_members : m.project_id = p /\ m.user_id = userId}

NextProjects ==
    \/ createProject(SoleClient)
    \/ \E c \in Clients : \E p \in ProjectsOf(UserOf(c)) : deleteProject(c, p)
    \/ \E p \in While(nextTaskId, ProjectsOf(UserOf(SoleClient))) :
          createTask_maxPos(SoleClient, p, TaskData("Todo", Undefined, UndefinedId))
    \/ createTask_insert(SoleClient)
    \/ \E t \in tasks : deleteTask_selectProject(SoleClient, t.id)
    \/ deleteTask_delete(SoleClient)
    \/ updateProjectProgress(SoleClient)
    \/ \E t \in While(nextCommentId, tasks), n \in 0..MaxAttachments :
          createComment_insert(SoleClient, t.id, UserOf(SoleClient), n)
    \/ createComment_attachments(SoleClient)
    \/ \E p \in While(nextMilestoneId, ProjectsOf(UserOf(SoleClient))) :
          handleAddMilestone(SoleClient, p)
    \/ \E p \in While(nextInvId, ProjectsOf(UserOf(SoleClient))), u \in Users :
          createProjectInvitation_existingMember(SoleClient, p, u, UserOf(SoleClient), "Member")
    \/ createProjectInvitation_existingInvitation(SoleClient)
    \/ createProjectInvitation_insert(SoleClient)

SpecProjects == Init /\ [][NextProjects]_vars

(***************************************************************************)
(* Authorization: the handlers called by the user signed in at either      *)
(* client, whatever its role in the project, under the policies of the     *)
(* database; one call at a time.                                           *)
(***************************************************************************)
\* the clients that may start a call: no call is running
Ready == {c \in Clients : \A d \in Clients : pc[d] = "idle"}

NextAuth ==
    \/ \E c \in Ready, p \in Projects, u \in Users, r \in InvitationRoles :
          handleInviteUser(c, p, u, r)
    \/ \E c \in Ready, id \in InvitationIds : handleAcceptInvitation(c, id)
    \/ \E c \in Ready, id \in InvitationIds : handleDeclineInvitation(c, id)
    \/ \E c \in Ready, id \in InvitationIds : handleCancelInvitation(c, id)
    \/ \E c \in Ready, u \in Users : removeProjectMember(c, BoardProject, u)
    \/ \E c \in Ready : \E p \in While(nextTaskId, {BoardProject}) :
          \E a \in TeamOf(project_members, p) \cup {Undefined} :
             createTask_maxPos(c, p, TaskData("Todo", a, UndefinedId))
    \/ \E c \in Clients : createTask_insert(c)
    \/ \E c \in Ready : \E t \in tasks :
          \E a \in TeamOf(project_members, t.project_id) :
             updateTask_update(c, t.id, TaskData(Undefined, a, UndefinedId))
    \/ \E c \in Clients : updateTask_selectProject(c)
    \/ \E c \in Clients : updateProjectProgress(c)
    \/ \E c \in Ready : \E t \in tasks : deleteTask_selectProject(c, t.id)
    \/ \E c \in Clients : deleteTask_delete(c)
    \/ \E c \in Ready : \E t \in tasks :
          \E m \in MilestonesOf(milestones, t.project_id) :
             handleMoveTask(c, t.id, m)
    \/ \E c \in Ready : \E p \in While(nextMilestoneId, {BoardProject}) :
          handleAddMilestone(c, p)
    \/ \E c \in Ready : \E t \in While(nextCommentId, tasks) :
          createComment_insert(c, t.id, UserOf(c), 0)

SpecAuth == Init /\ [][NextAuth]_vars

(***************************************************************************)
(* The invitation workflow with remote calls that fail, the calls run one  *)
(* at a time.                                                              *)
(***************************************************************************)
NextFailures ==
    \/ \E p \in Projects, u \in Users, r \in InvitationRoles :
          createProjectInvitation_existingMember(SoleClient, p, u, CreatedBy(p), r)
    \/ \E p \in Projects, u \in Users, r \in InvitationRoles :
          createProjectInvitation_existingMemberFails(SoleClient, p, u, CreatedBy(p), r)
    \/ createProjectInvitation_existingInvitation(SoleClient)
    \/ createProjectInvitation_existingInvitationFails(SoleClient)
    \/ createProjectInvitation_insert(SoleClient)
    \/ createProjectInvitation_insertFails(SoleClient)
    \/ \E id \in InvitationIds : acceptProjectInvitation_select(SoleClient, id)
    \/ \E id \in InvitationIds : acceptProjectInvitation_selectFails(SoleClient, id)
    \/ acceptProjectInvitation_insertMember(SoleClient)
    \/ acceptProjectInvitation_insertMemberFails(SoleClient)
    \/ acceptProjectInvitation_updateStatus(SoleClient)
    \/ acceptProjectInvitation_updateStatusFails(SoleClient)
    \/ \E id \in InvitationIds : declineProjectInvitation(SoleClient, id)
    \/ \E id \in InvitationIds : declineProjectInvitation_fails(SoleClient, id)
    \/ \E id \in InvitationIds : cancelProjectInvitation(SoleClient, id)
    \/ \E id \in InvitationIds : cancelProjectInvitation_fails(SoleClient, id)

SpecFailures == Init /\ [][NextFailures]_vars

(***************************************************************************)
(* App: the handlers of one session, one at a time, with remote calls that *)
(* fail, followed in three specifications.                                 *)
(***************************************************************************)
\* the projects the views of the session show
ShownProjects == {project.id : project \in clientProjects}

\* the project of ProjectDetail, when that is the view
ActiveProjects ==
    IF view = "PROJECT_DETAIL" THEN ShownProjects \cap {selectedProjectId} ELSE {}

\* the tasks of the project of ProjectDetail
ActiveTasks ==
    UNION {{t.id : t \in project.tasks} :
             project \in {q \in clientProjects : q.id \in ActiveProjects}}

\* the projects getProjects of slot c is converting
ShownOrLoading(c) ==
    IF pc[c] = "getProjects_team" THEN {row.id : row \in call[c].rows} ELSE {}

\* the numbers of suggested tasks for which task ids are left, when rows
\* rows of tasks are inserted at most
Suggested(rows) == {n \in 0..MaxSuggested : nextTaskId + n <= rows + 1}

\* what every session does: the effect, the navigation, the steps of
\* loadProjects and the end of a handler
AppSteps ==
    \/ useEffect_loadProjects(SoleClient)
    \/ \E id \in ShownProjects : handleSelectProject(SoleClient, id)
    \/ \E v \in {"DASHBOARD", "WIZARD"} : setView(SoleClient, v)
    \/ \E fails \in BOOLEAN : getProjects_members(SoleClient, fails)
    \/ \E fails \in BOOLEAN : getProjects_projects(SoleClient, fails)
    \/ \E failing \in SUBSET ShownOrLoading(SoleClient) :
          getProjects_team(SoleClient, failing)
    \/ \E fails \in BOOLEAN : getProjects_tasks(SoleClient, fails)
    \/ \E fails \in BOOLEAN : getProjects_milestones(SoleClient, fails)
    \/ \E fails \in BOOLEAN : loadProjects_invitations(SoleClient, fails)
    \/ handler_catch(SoleClient)
    \/ handler_tail(SoleClient)

\* a session that creates, edits and deletes projects
NextAppProjects ==
    \/ AppSteps
    \/ \E p \in (IF view = "WIZARD" THEN NewProjects ELSE {}) :
          \E teamMemberIds \in SUBSET (Users \ {SessionUser}) :
             \E suggested \in Suggested(MaxTasks), F \in FailureSets(3) :
                handleCreateProject_createProject(SoleClient, p, teamMemberIds, suggested, F)
    \/ \E F \in FailureSets(2) : handleCreateProject_createTask(SoleClient, F)
    \/ \E p \in ShownProjects, F \in FailureSets(1) :
          handleEditProject_updateProject(SoleClient, p, F)
    \/ \E p \in ShownProjects, F \in FailureSets(1) :
          handleDeleteProject_deleteProject(SoleClient, p, F)

SpecAppProjects == Init /\ [][NextAppProjects]_vars

\* a session that works on the tasks of the project it has open
NextAppTasks ==
    \/ AppSteps
    \/ \E p \in (IF nextTaskId <= MaxAppRows THEN ActiveProjects ELSE {}) :
       \E F \in FailureSets(2) :
          handleAddTask_createTask(SoleClient, p, TaskData("Todo", Undefined, UndefinedId), F)
    \/ \E id \in ActiveTasks, F \in FailureSets(4) :
          handleUpdateTask_updateTask(SoleClient, id,
                                      TaskData("Completed", Undefined, UndefinedId), F)
    \/ \E id \in ActiveTasks, F \in FailureSets(4) :
          \E m \in MilestonesOf(milestones, selectedProjectId) \cup {UndefinedId} :
             handleMoveTask_updateTask(SoleClient, id, m, F)
    \/ \E id \in ActiveTasks, F \in FailureSets(4) :
          handleDeleteTask_deleteTask(SoleClient, id, F)
    \/ \E id \in (IF nextCommentId <= MaxAppRows THEN ActiveTasks ELSE {}) :
       \E n \in 0..MaxAttachments, F \in FailureSets(2) :
          handleAddComment_createComment(SoleClient, id, n, F)
    \/ \E p \in (IF nextMilestoneId <= MaxAppRows THEN ActiveProjects ELSE {}) :
       \E F \in FailureSets(1) :
          handleAddMilestone_createMilestone(SoleClient, p, F)

SpecAppTasks == Init /\ [][NextAppTasks]_vars

\* a session that invites to the project it has open and answers the
\* invitations of the Owner of the other project
NextAppInvitations ==
    \/ AppSteps
    \/ \E p \in (IF nextInvId <= MaxAppRows THEN ActiveProjects ELSE {}) :
       \E u \in Users, r \in InvitationRoles, F \in FailureSets(3) :
          handleInviteUser_createProjectInvitation(SoleClient, p, u, r, F)
    \/ \E fails \in BOOLEAN : handleInviteUser_getProjectInvitations(SoleClient, fails)
    \/ \E id \in InvitationIds, F \in FailureSets(1) :
          handleCancelInvitation_cancelProjectInvitation(SoleClient, id, F)
    \/ \E id \in InvitationIds, F \in FailureSets(3) :
          handleAcceptInvitation_acceptProjectInvitation(SoleClient, id, F)
    \/ \E id \in InvitationIds, F \in FailureSets(1) :
          handleDeclineInvitation_declineProjectInvitation(SoleClient, id, F)
    \/ \E fails \in BOOLEAN : loadUserInvitations(SoleClient, fails)
    \/ \E r \in (IF nextInvId <= MaxAppRows THEN InvitationRoles ELSE {}) :
          handleInviteUser("c2", "p2", SessionUser, r)

SpecAppInvitations == Init /\ [][NextAppInvitations]_vars

\* a session with two handlers in flight at a time, on the tasks of the
\* project it has open; every remote call succeeds, and the effect is
\* followed for the first load only
NextAppOverlap ==
    \/ \E c \in (IF clientProjects = {} THEN {SoleClient} ELSE {}) :
          useEffect_loadProjects(c)
    \/ \E id \in ShownProjects : handleSelectProject(SoleClient, id)
    \/ \E c \in Clients :
          \E p \in (IF nextTaskId <= MaxAppRows THEN ActiveProjects ELSE {}) :
             handleAddTask_createTask(c, p, TaskData("Todo", Undefined, UndefinedId), {})
    \/ \E c \in Clients, id \in ActiveTasks :
          handleUpdateTask_updateTask(c, id, TaskData("Completed", Undefined, UndefinedId), {})
    \/ \E c \in Clients, id \in ActiveTasks : handleDeleteTask_deleteTask(c, id, {})
    \/ \E c \in Clients : getProjects_members(c, FALSE)
    \/ \E c \in Clients : getProjects_projects(c, FALSE)
    \/ \E c \in Clients : getProjects_team(c, {})
    \/ \E c \in Clients : getProjects_tasks(c, FALSE)
    \/ \E c \in Clients : getProjects_milestones(c, FALSE)
    \/ \E c \in Clients : loadProjects_invitations(c, FALSE)
    \/ \E c \in Clients : handler_tail(c)

SpecAppOverlap == Init /\ [][NextAppOverlap]_vars

(***************************************************************************)
(* Concurrent task calls: createTask, updateTask and deleteTask of two     *)
(* clients on the tasks of one project, interleaving at every await.       *)
(***************************************************************************)
\* the statuses the status control of a task row toggles between
ToggledStatuses == {"Todo", "Completed"}

\* the project has two tasks, created one after the other, and no call is
\* running
InitTwoTasks ==
    /\ project_members = {MemberRow(p, CreatedBy(p), "Owner") : p \in Projects}
    /\ project_invitations = {}
    /\ nextInvId = 1
    /\ tasks = {TaskRow(1, BoardProject, "Todo", 1, NullUser, NullId),
                TaskRow(2, BoardProject, "Todo", 2, NullUser, NullId)}
    /\ progress = [p \in Projects |-> 0]
    /\ nextTaskId = 3
    /\ apiKey = FALSE
    /\ attempt = 0
    /\ gen_pc = "start"
    /\ response = NoResponse
    /\ generated = <<>>
    /\ externalCalls = 0
    /\ delays = <<>>
    /\ pc = [c \in Clients |-> "idle"]
    /\ call = [c \in Clients |-> NoCall]
    /\ result = "none"
    /\ pre = [c \in Clients |-> NoPre]
    /\ projects = Projects
    /\ milestones = {}
    /\ nextMilestoneId = 1
    /\ comments = {}
    /\ nextCommentId = 1
    /\ attachments = {}
    /\ view = "DASHBOARD"
    /\ selectedProjectId = NoProject
    /\ clientProjects = {}
    /\ toasts = [c \in Clients |-> {}]

NextTaskUpdates ==
    \/ \E c \in Clients : \E t \in tasks : \E st \in ToggledStatuses :
          updateTask_update(c, t.id, TaskData(st, Undefined, UndefinedId))
    \/ \E c \in Clients : updateTask_selectProject(c)
    \/ \E c \in Clients : \E t \in tasks : deleteTask_selectProject(c, t.id)
    \/ \E c \in Clients : deleteTask_delete(c)
    \/ \E c \in Clients : updateProjectProgress_select(c)
    \/ \E c \in Clients : updateProjectProgress_update(c)

SpecTaskUpdates == InitTwoTasks /\ [][NextTaskUpdates]_vars

NextTaskCreates ==
    \/ \E c \in Clients :
          createTask_maxPos(c, BoardProject, TaskData("Todo", Undefined, UndefinedId))
    \/ \E c \in Clients : createTask_insert(c)
    \/ \E c \in Clients : \E t \in tasks : deleteTask_selectProject(c, t.id)
    \/ \E c \in Clients : deleteTask_delete(c)
    \/ \E c \in Clients : updateProjectProgress(c)

SpecTaskCreates == Init /\ [][NextTaskCreates]_vars

(***************************************************************************)
(* Task suggestion: one call of generateProjectTasks.                      *)
(***************************************************************************)
NextGen ==
    \/ \E key \in BOOLEAN : generateProjectTasks_start(key)
    \/ \E r \in Responses : generateProjectTasks_attempt(r)
    \/ generateProjectTasks_backoff

SpecGen == Init /\ [][NextGen]_vars

(***************************************************************************)
(* Properties of the invitation workflow.                                  *)
(***************************************************************************)
PendingInvitationsOf(p, u) ==
    {i \in project_invitations :
        i.project_id = p /\ i.invited_user_id = u /\ i.status = "pending"}

IsMember(p, u) == \E m \in project_members : m.project_id = p /\ m.user_id = u

AtMostOnePending ==
    \A p \in Projects, u \in Users : Cardinality(PendingInvitationsOf(p, u)) <= 1

\* a createProjectInvitation call of client c for a pair that had a pending
\* invitation when the call was made returns in this step
DuplicateInviteReturns(c) ==
    \/ \E p \in Projects, u \in Users, r \in InvitationRoles :
          /\ createProjectInvitation_existingMember(c, p, u, CreatedBy(p), r)
          /\ PendingInvitationsOf(p, u) # {}
          /\ pc'[c] = "idle"
    \/ /\ call[c].op = "createProjectInvitation"
       /\ call[c].pendingAtStart
       /\ pc'[c] = "idle"

\* C2 as stated: every (project, invited user) pair has at most one pending
\* invitation, and a createProjectInvitation call made for a pair that has a
\* pending invitation fails with the pending-invitation error and leaves the
\* invitations as they are.
C2_DuplicateInviteAlwaysRejected ==
    /\ []AtMostOnePending
    /\ [][\A c \in Clients :
            DuplicateInviteReturns(c) =>
                /\ result' = ErrPendingInvitation
                /\ project_invitations' = project_invitations]_vars

\* C2 as amended: every (project, invited user) pair has at most one pending
\* invitation, and a createProjectInvitation call that finds the pair with a
\* pending invitation when it makes its pending-invitation query fails with
\* the pending-invitation error and leaves invitations and memberships as
\* they are.
C2_PendingCheckRejects ==
    /\ []AtMostOnePending
    /\ [][\A c \in Clients :
            (/\ createProjectInvitation_existingInvitation(c)
             /\ PendingInvitationsOf(call[c].projectId, call[c].invitedUserId) # {})
            => /\ result' = ErrPendingInvitation
               /\ pc'[c] = "idle"
               /\ project_invitations' = project_invitations
               /\ project_members' = project_members]_vars

C2_Witness ==
    /\ result = ErrPendingInvitation
    /\ \E i \in project_invitations : i.status = "pending"

AcceptReturns(c) ==
    /\ call[c].op = "acceptProjectInvitation"
    /\ pc'[c] = "idle"

\* C4: acceptProjectInvitation on a pending invitation, with no other call
\* running beside it, inserts exactly one membership row for the invitation's
\* project and invited user with the invitation's role and sets the
\* invitation's status to accepted; on an invitation that is not pending or
\* does not exist it fails and changes neither memberships nor invitations.
C4_AcceptPendingOnly ==
    [][\A c \in Clients :
          /\ (AcceptReturns(c) /\ pre[c].valid) =>
                LET inv == call[c].invitation
                    row == [project_id |-> inv.project_id,
                            user_id |-> inv.invited_user_id, role |-> inv.role]
                IN /\ inv \in pre[c].invitations
                   /\ inv.status = "pending"
                   /\ result' = OK
                   /\ \A m \in pre[c].members :
                         ~(m.project_id = inv.project_id /\ m.user_id = inv.invited_user_id)
                   /\ project_members' = pre[c].members \cup {row}
                   /\ project_invitations' =
                         (pre[c].invitations \ {inv}) \cup {[inv EXCEPT !.status = "accepted"]}
          /\ \A id \in InvitationIds :
                (/\ acceptProjectInvitation_select(c, id)
                 /\ ~\E i \in project_invitations : i.id = id /\ i.status = "pending")
                => /\ result' # OK
                   /\ pc'[c] = "idle"
                   /\ project_invitations' = project_invitations
                   /\ project_members' = project_members]_vars

C4_Witness ==
    /\ result = OK
    /\ \A c \in Clients : pc[c] = "idle"
    /\ \E i \in project_invitations :
          /\ i.status = "accepted"
          /\ [project_id |-> i.project_id, user_id |-> i.invited_user_id,
              role |-> i.role] \in project_members

\* C5: an invitation whose status is accepted or declined keeps that status
\* and is never deleted.
C5_ResolvedIsFinal ==
    [][\A i \in project_invitations :
          i.status \in {"accepted", "declined"} => i \in project_invitations']_vars

\* C6: whenever acceptProjectInvitation returns success, the invitation
\* exists with status accepted and a membership with its role exists.
C6_AcceptAtomic ==
    [][\A c \in Clients :
          (AcceptReturns(c) /\ result' = OK) =>
              LET inv == call[c].invitation IN
              /\ [inv EXCEPT !.status = "accepted"] \in project_invitations'
              /\ [project_id |-> inv.project_id, user_id |-> inv.invited_user_id,
                  role |-> inv.role] \in project_members']_vars

\* C7: declineProjectInvitation and cancelProjectInvitation leave the
\* relation project_members as it is, whatever the invitation's state.
C7_DeclineCancelKeepMembers ==
    [][(\E c \in Clients, id \in InvitationIds :
            declineProjectInvitation(c, id) \/ cancelProjectInvitation(c, id))
       => project_members' = project_members]_vars

\* an invitation has been cancelled (its row is gone) and an invitation of a
\* user who is a member of the project has been declined
C7_Witness ==
    /\ Cardinality(project_invitations) < nextInvId - 1
    /\ \E i \in project_invitations :
          i.status = "declined" /\ IsMember(i.project_id, i.invited_user_id)
    /\ \A c \in Clients : pc[c] = "idle"

\* C8: cancelProjectInvitation deletes the invitation if it is pending;
\* otherwise it returns without error and leaves invitations and memberships
\* as they are.
C8_CancelOnlyPending ==
    [][\A c \in Clients, id \in InvitationIds :
          cancelProjectInvitation(c, id) =>
              /\ result' = OK
              /\ project_members' = project_members
              /\ project_invitations' =
                    {i \in project_invitations : ~(i.id = id /\ i.status = "pending")}]_vars

\* the only invitation ever inserted has been deleted
C8_Witness ==
    /\ nextInvId = 2
    /\ project_invitations = {}
    /\ result = OK
    /\ \A c \in Clients : pc[c] = "idle"

\* C9: a createProjectInvitation call made, with no other call running, for
\* a user who is not a member of the project and has no pending invitation
\* to it succeeds and creates one pending invitation with the requested role
\* and inviter.
C9_InviteSucceedsWhenFree ==
    [][\A c \in Clients :
          (/\ call[c].op = "createProjectInvitation"
           /\ pc'[c] = "idle"
           /\ pre[c].valid
           /\ ~call[c].pendingAtStart)
          => /\ result' = OK
             /\ \E id \in InvitationIds :
                   project_invitations' = pre[c].invitations \cup
                      {[id |-> id, project_id |-> call[c].projectId,
                        invited_user_id |-> call[c].invitedUserId,
                        invited_by |-> call[c].invitedBy,
                        role |-> call[c].role, status |-> "pending"]}]_vars

(***************************************************************************)
(* Properties of tasks and progress.                                       *)
(***************************************************************************)
ExpectedProgress(p) ==
    LET total == Cardinality({t \in tasks : t.project_id = p})
        completed == Cardinality({t \in tasks : t.project_id = p /\ t.status = "Completed"})
    IN IF total = 0 THEN 0 ELSE (200 * completed + total) \div (2 * total)

\* C1: whenever no createTask, updateTask or deleteTask call is running (the
\* calls run one at a time), the stored progress of every project is
\* round(100 x completed / total) over its tasks, and 0 if it has no task.
C1_ProgressMatchesTasks ==
    (\A c \in Clients : pc[c] = "idle") =>
        \A p \in Projects : progress[p] = ExpectedProgress(p)

\* the ids of the tasks of project p in the order of their creation
CreationOrder(p) ==
    LET ids == {t.id : t \in TasksOf(tasks, p)}
        n == Cardinality(ids)
    IN CHOOSE s \in [1..n -> ids] : \A i, j \in 1..n : i < j => s[i] < s[j]

ChangesOnly(id, updates) ==
    /\ {t.id : t \in tasks'} = {t.id : t \in tasks}
    /\ Cardinality(tasks') = Cardinality(tasks)
    /\ nextTaskId' = nextTaskId
    /\ \A t \in tasks : t.id # id => t \in tasks'
    /\ \A t \in tasks : t.id = id =>
          \E n \in tasks' :
             /\ n.id = id
             /\ n.project_id = t.project_id
             /\ n.position = t.position
             /\ n.status = IF updates.status = Undefined THEN t.status ELSE updates.status
             /\ n.assignee_id =
                   IF updates.assigneeId = Undefined THEN t.assignee_id ELSE updates.assigneeId
             /\ n.milestone_id =
                   IF updates.milestoneId = UndefinedId THEN t.milestone_id
                   ELSE updates.milestoneId

\* C13: updateTask(task, updates) changes, on that one task, exactly the
\* fields that updates gives a value: its other fields and its position stay
\* as they are, no other task changes, and no task is created or deleted,
\* neither by the update nor by the rest of the call.
C13_UpdateChangesNamedFieldsOnly ==
    [][\A c \in Clients :
          /\ (pc[c] # "updateTask_selectProject" /\ pc'[c] = "updateTask_selectProject")
                => ChangesOnly(call'[c].taskId, call'[c].updates)
          /\ call[c].op = "updateTask" => (tasks' = tasks /\ nextTaskId' = nextTaskId)]_vars

\* a task has taken three fields from one update beside a task that has not
C13_Witness ==
    /\ \A c \in Clients : pc[c] = "idle"
    /\ \E t, u \in tasks :
          /\ t.status = "In Progress" /\ t.assignee_id # NullUser /\ t.milestone_id # NullId
          /\ u.project_id = t.project_id /\ u.status = "Todo" /\ u.milestone_id = NullId

\* the milestone reference a task has after a drop on the target: the
\* milestone, or none for the Uncategorized area
TargetReference(newMilestoneId) ==
    IF newMilestoneId = UndefinedId THEN NullId ELSE newMilestoneId

\* C14: when a move of a task (handleMoveTask) has completed, the milestone
\* reference of the task is that of the drop target, none for the
\* Uncategorized area, and the milestone reference of no other task has
\* changed.
C14_MoveSetsTargetMilestone ==
    [][\A c \in Clients :
          /\ \A t \in tasks :
                \A m \in MilestonesOf(milestones, t.project_id) \cup {UndefinedId} :
                   handleMoveTask(c, t.id, m) =>
                      \A u \in tasks : u.id # t.id =>
                         \E n \in tasks' : n.id = u.id /\ n.milestone_id = u.milestone_id
          /\ (/\ call[c].op = "updateTask"
              /\ call[c].handler = "handleMoveTask"
              /\ pc'[c] = "idle"
              /\ result' = OK)
             => \A n \in tasks' :
                   n.id = call[c].taskId =>
                      n.milestone_id = TargetReference(call[c].updates.milestoneId)]_vars

\* this step adds one milestone to project p, after the milestones the
\* project has
MilestoneAppended(p) ==
    \E m \in milestones' \ milestones :
       /\ milestones' = milestones \cup {m}
       /\ m.project_id = p
       /\ \A i \in MilestonesOf(milestones, p) : i < m.id

\* this step changes the milestone reference of no task
SameMilestoneReferences ==
    \A t \in tasks : \E n \in tasks' : n.id = t.id /\ n.milestone_id = t.milestone_id

\* the creation of a milestone from the task sidebar is still under way
SidebarPathRunning(c) ==
    \/ pc[c] = "sidebarEffect"
    \/ call[c].op = "updateTask" /\ call[c].handler = "sidebarEffect"

\* C19 as stated: the creation of a milestone adds one milestone at the end
\* of the project's list and changes the milestone reference of no task, in
\* each of the three paths, the one of the task sidebar included.
C19_MilestoneCreationKeepsTasks ==
    [][\A c \in Clients :
          /\ \A p \in Projects :
                (handleAddMilestone(c, p) \/ handleInlineMilestoneCreate(c, p))
                => (MilestoneAppended(p) /\ SameMilestoneReferences)
          /\ \A t \in tasks :
                handleSidebarInlineMilestoneCreate(c, t.project_id, t.id)
                => (MilestoneAppended(t.project_id) /\ SameMilestoneReferences)
          /\ SidebarPathRunning(c) => SameMilestoneReferences]_vars

\* C19 as amended: the creation of a milestone adds one milestone at the end
\* of the project's list and changes no task; from the Add Milestone form
\* and from the add-task form nothing else follows; from the task sidebar
\* the task open in the sidebar is then given the new milestone, and no
\* other task changes.
C19_OnlySidebarAssignsNewMilestone ==
    [][\A c \in Clients :
          /\ \A p \in Projects :
                (handleAddMilestone(c, p) \/ handleInlineMilestoneCreate(c, p))
                => (MilestoneAppended(p) /\ tasks' = tasks /\ pc'[c] = "idle")
          /\ \A t \in tasks :
                handleSidebarInlineMilestoneCreate(c, t.project_id, t.id)
                => (MilestoneAppended(t.project_id) /\ tasks' = tasks)
          /\ pc[c] = "sidebarEffect" =>
                /\ milestones' = milestones
                /\ \A t \in tasks :
                      \E n \in tasks' :
                         /\ n = [t EXCEPT !.milestone_id =
                                    IF t.id = call[c].activeTask
                                    THEN nextMilestoneId - 1 ELSE @]
                /\ Cardinality(tasks') = Cardinality(tasks)
          /\ (call[c].op = "updateTask" /\ call[c].handler = "sidebarEffect")
                => (tasks' = tasks /\ milestones' = milestones)]_vars

\* the effect of the sidebar has given the second milestone to the task
\* open in it, which had the first
C19_Witness ==
    /\ call[SoleClient].op = "updateTask"
    /\ call[SoleClient].handler = "sidebarEffect"
    /\ nextMilestoneId = 3
    /\ \E t \in tasks : t.id = call[SoleClient].taskId /\ t.milestone_id = 2

(***************************************************************************)
(* Properties of projects.                                                 *)
(***************************************************************************)
MembersOf(members, p) == {m \in members : m.project_id = p}

\* C17: when createProject(name, description, template, creator,
\* teamMemberIds) returns with success, the memberships of the project are
\* the creator as Owner and each user of teamMemberIds as Member and no
\* other, the project has one Owner, its progress is 0 and it has no task
\* and no milestone.
C17_NewProjectTeam ==
    [][\A c \in Clients :
          (call[c].op = "createProject" /\ pc'[c] = "idle" /\ result' = OK) =>
             LET p == call[c].projectId
                 team == MembersOf(project_members', p)
             IN /\ p \in projects'
                /\ \A m \in team :
                      \/ m.user_id = call[c].createdBy /\ m.role = "Owner"
                      \/ m.user_id \in call[c].teamMemberIds /\ m.role = "Member"
                /\ \A u \in call[c].teamMemberIds \cup {call[c].createdBy} :
                      \E m \in team : m.user_id = u
                /\ Cardinality(team) = Cardinality(call[c].teamMemberIds) + 1
                /\ Cardinality({m \in team : m.role = "Owner"}) = 1
                /\ progress'[p] = 0
                /\ TasksOf(tasks', p) = {}
                /\ MilestonesOf(milestones', p) = {}]_vars

\* a project has been created with a team of one user beside the creator
C17_Witness ==
    /\ \A c \in Clients : pc[c] = "idle"
    /\ result = OK
    /\ \E p \in NewProjects :
          /\ p \in projects
          /\ MembersOf(project_members, p) =
                {MemberRow(p, "u1", "Owner"), MemberRow(p, "u2", "Member")}

\* every row references a row that exists: tasks, milestones, memberships
\* and invitations a project, comments a task, attachments a comment
ParentsExist ==
    /\ \A r \in tasks \cup milestones \cup project_members \cup project_invitations :
          r.project_id \in projects
    /\ \A k \in comments : \E t \in tasks : t.id = k.task_id
    /\ \A a \in attachments : \E k \in comments : k.id = a.comment_id

\* after this step no row of relation rows' is one of those that belonged to
\* the tasks given
NoneOfTasks(deleted) ==
    /\ \A k \in comments' : \A t \in deleted : k.task_id # t.id
    /\ \A a \in attachments' :
          \A k \in comments : (\E t \in deleted : k.task_id = t.id) => a.comment_id # k.id

\* C18: when deleteProject has completed, no task, milestone, membership,
\* invitation, comment or attachment of the project remains; when deleteTask
\* has deleted the task, no comment or attachment of the task remains; and in
\* every reachable state every task, milestone, comment and attachment
\* references an existing parent.
C18_DeletionCascades ==
    /\ []ParentsExist
    /\ [][\A c \in Clients :
             /\ \A p \in Projects \cup NewProjects :
                   deleteProject(c, p) =>
                      /\ p \notin projects'
                      /\ \A r \in tasks' \cup milestones' \cup project_members'
                                   \cup project_invitations' : r.project_id # p
                      /\ NoneOfTasks(TasksOf(tasks, p))
             /\ deleteTask_delete(c) =>
                   /\ TaskById(tasks', call[c].taskId) = {}
                   /\ NoneOfTasks(TaskById(tasks, call[c].taskId))]_vars

\* a project has been deleted while a comment on one of its tasks was being
\* created: the comment is gone before its attachments are inserted
C18_Witness ==
    /\ pc[SoleClient] = "insertAttachments"
    /\ \A k \in comments : k.id # call[SoleClient].commentId
    /\ projects # Projects \cup NewProjects
    /\ nextMilestoneId > 1
    /\ nextInvId > 1

(***************************************************************************)
(* Properties of authorization.                                            *)
(***************************************************************************)
\* canEdit of ProjectDetail: the user is Owner or Member of the project
CanEdit(members, p, uid) ==
    \E m \in members :
       m.project_id = p /\ m.user_id = uid /\ m.role \in {"Owner", "Member"}

\* C15: a user who is Viewer of a project, or no member of it, cannot have a
\* task of the project created, updated, deleted or moved, nor a milestone
\* created: the attempt leaves tasks and milestones as they are; a comment
\* of that user is added.
C15_ViewerCannotMutate ==
    [][\A c \in Clients : \A p \in Projects :
          ~CanEdit(project_members, p, UserOf(c)) =>
             /\ (pc[c] = "insertTask" /\ call[c].projectId = p /\ createTask_insert(c))
                   => (tasks' = tasks /\ result' # OK)
             /\ \A t \in TasksOf(tasks, p) :
                   /\ \A a \in Users :
                         updateTask_update(c, t.id, TaskData(Undefined, a, UndefinedId))
                         => tasks' = tasks
                   /\ \A m \in MilestonesOf(milestones, p) :
                         handleMoveTask(c, t.id, m) => tasks' = tasks
                   /\ (pc[c] = "deleteTask_delete" /\ call[c].taskId = t.id
                         /\ deleteTask_delete(c))
                         => tasks' = tasks
                   /\ createComment_insert(c, t.id, UserOf(c), 0)
                         => (comments' # comments /\ result' = OK)
             /\ handleAddMilestone(c, p) => (milestones' = milestones /\ result' # OK)]_vars

\* the users whose call changes an invitation or a membership in this step
\* are those allowed: an Owner of the project for the creation and the
\* cancellation, the invited user for the acceptance and the refusal
InvitationsChanged ==
    project_invitations' # project_invitations \/ project_members' # project_members

\* C16: an invitation is created or cancelled only by an Owner of its
\* project, and accepted or declined only by its invited user; the attempt
\* of any other user changes no invitation and no membership.
C16_OnlyOwnerAndInvitee ==
    [][\A c \in Clients :
          /\ \A p \in Projects, u \in Users, r \in InvitationRoles :
                (handleInviteUser(c, p, u, r) /\ InvitationsChanged)
                => IsOwner(project_members, p, UserOf(c))
          /\ \A i \in project_invitations :
                /\ (handleCancelInvitation(c, i.id) /\ InvitationsChanged)
                      => IsOwner(project_members, i.project_id, UserOf(c))
                /\ (handleAcceptInvitation(c, i.id) /\ InvitationsChanged)
                      => i.invited_user_id = UserOf(c)
                /\ (handleDeclineInvitation(c, i.id) /\ InvitationsChanged)
                      => i.invited_user_id = UserOf(c)]_vars

\* C20: in every reachable state the assignee of a task, when it has one,
\* has a membership row in the project of the task.
C20_AssigneeIsMember ==
    \A t \in tasks :
       t.assignee_id # NullUser =>
          \E m \in project_members :
             m.project_id = t.project_id /\ m.user_id = t.assignee_id

(***************************************************************************)
(* Properties of generateProjectTasks.                                     *)
(***************************************************************************)
\* a non-empty text that parses as JSON to a non-empty array
WellFormed(r) ==
    /\ r.kind = "json"
    /\ r.isArray
    /\ r.value # <<>>

\* C10 as stated: when an external call returns a well-formed response, the
\* function returns between 5 and 8 tasks.
C10_FiveToEightTasks ==
    [][(externalCalls' = externalCalls + 1 /\ WellFormed(response'))
          => /\ gen_pc' = "done"
             /\ Len(generated') >= 5
             /\ Len(generated') <= 8]_vars

\* C10 as amended: when an external call returns a well-formed response, the
\* function returns one task per element of the response array, in the
\* order of the array, so at least one task and as many as the service sent;
\* when an element of the array is null the attempt counts as failed instead.
C10_OneTaskPerElement ==
    [][(externalCalls' = externalCalls + 1 /\ WellFormed(response'))
          => IF TransformThrows(response'.value)
             THEN /\ attempt' = attempt + 1
                  /\ generated' \in {generated, simulateAiResponse}
             ELSE /\ gen_pc' = "done"
                  /\ Len(generated') = Len(response'.value)
                  /\ Len(generated') >= 1
                  /\ \A k \in 1..Len(generated') :
                        /\ generated'[k].id = k - 1
                        /\ response'.value[k].title # ""
                              => generated'[k].title = response'.value[k].title]_vars

\* the call has returned the tasks of a response of more than 8 elements
C10_Witness ==
    /\ gen_pc = "done"
    /\ WellFormed(response)
    /\ Len(generated) > 8

\* the call has returned the fixed list
ReturnedFallback == gen_pc = "done" /\ generated = simulateAiResponse

\* the fallback cases: without a credential the call returns the fixed list
\* and has made no external call; after three failed attempts it returns
\* the fixed list and has made exactly three external calls; there is never
\* a fourth
FallbackCases ==
    /\ (gen_pc = "done" /\ ~apiKey) => (ReturnedFallback /\ externalCalls = 0)
    /\ (gen_pc = "done" /\ attempt >= 3) => (ReturnedFallback /\ externalCalls = 3)
    /\ ReturnedFallback => (~apiKey \/ attempt = 3)
    /\ externalCalls <= 3
    /\ externalCalls = attempt + (IF gen_pc = "done" /\ apiKey /\ attempt < 3 THEN 1 ELSE 0)

\* C11 as stated: the fallback cases hold; an attempt fails when the call
\* throws, returns empty text, text that is not JSON, or a value that is not
\* a non-empty array; and no external call is made once a response was a
\* non-empty array.
C11_FallbackAndNoCallAfterArray ==
    /\ []FallbackCases
    /\ [][(externalCalls' = externalCalls + 1 /\ ~WellFormed(response'))
             => attempt' = attempt + 1]_vars
    /\ [][externalCalls' = externalCalls + 1 => ~WellFormed(response)]_vars

\* C11 as amended: the fallback cases hold; an attempt fails when the call
\* throws, returns empty text, text that is not JSON, a value that is not a
\* non-empty array, or an array with a null element, and in no other case;
\* no external call is made once an attempt has not failed.
C11_FallbackAfterThreeFailures ==
    /\ []FallbackCases
    /\ [][externalCalls' = externalCalls + 1 =>
             IF WellFormed(response') /\ ~TransformThrows(response'.value)
             THEN attempt' = attempt /\ gen_pc' = "done"
             ELSE attempt' = attempt + 1]_vars
    /\ [][externalCalls' = externalCalls + 1 =>
             ~(WellFormed(response) /\ ~TransformThrows(response.value))]_vars

\* three attempts have failed, the last on an array with a null element,
\* and the call has returned the fixed list
C11_Witness ==
    /\ ReturnedFallback
    /\ apiKey
    /\ externalCalls = 3
    /\ WellFormed(response)
    /\ Len(delays) = 2

\* the waits made so far are the first of those of expected, one for each
\* failed attempt that another attempt follows
BackoffDelays(expected) ==
    /\ Len(delays) <= Len(expected)
    /\ \A k \in 1..Len(delays) : delays[k] = expected[k]
    /\ (ReturnedFallback /\ apiKey) => delays = expected
    /\ Len(delays) = (IF attempt = 0 THEN 0
                      ELSE IF gen_pc = "backoff" THEN attempt - 1
                      ELSE IF attempt >= MAX_RETRIES THEN MAX_RETRIES - 1
                      ELSE attempt)

\* C21: between failed attempts the call waits 1 second before the second
\* attempt and 2 seconds before the third, and after the third failure it
\* returns the fixed list without a further wait.
C21_BackoffOneThenTwoSeconds == BackoffDelays(<<1000, 2000>>)

\* C21 as amended: between failed attempts the call waits 2 seconds before
\* the second attempt and 4 seconds before the third (1000 ms times 2 to the
\* power of the number of failures so far), and after the third failure it
\* returns the fixed list without a further wait.
C21_BackoffTwoThenFourSeconds ==
    /\ []BackoffDelays(<<2000, 4000>>)
    /\ [][(gen_pc = "backoff" /\ gen_pc' # "backoff")
             => /\ delays' = Append(delays, 1000 * (2 ^ attempt))
                /\ gen_pc' = "attempt"]_vars
    /\ [][gen_pc # "backoff" => delays' = delays]_vars

\* three attempts have failed and the call has waited twice
C21_Witness ==
    /\ ReturnedFallback
    /\ externalCalls = 3
    /\ delays = <<2000, 4000>>
    /\ response.kind = "throws"

(***************************************************************************)
(* Properties of the assignee of a task.                                   *)
(***************************************************************************)
\* C29: when the update made by the Unassigned entry of an assignee menu has
\* completed, the task has no assignee.
C29_UnassignedClearsAssignee ==
    [][\A c \in Clients :
          (/\ call[c].op = "updateTask"
           /\ call[c].handler = "handleUpdateTask"
           /\ call[c].updates = Unassigned
           /\ pc'[c] = "idle"
           /\ result' = OK)
          => \A n \in tasks' : n.id = call[c].taskId => n.assignee_id = NullUser]_vars

(***************************************************************************)
(* Properties of concurrent task calls.                                    *)
(***************************************************************************)
\* C25: once the updateTask and deleteTask calls of all clients on the
\* tasks of a project have completed, the stored progress of the project is
\* round(100 x completed / total) of the tasks it then has, and 0 when it
\* has none, also when the calls ran concurrently.
C25_ProgressAfterConcurrentCalls ==
    (\A c \in Clients : pc[c] = "idle") =>
        progress[BoardProject] = ExpectedProgress(BoardProject)

\* C26: in every reachable state the tasks of one project have pairwise
\* distinct positions, so that getTasks has one order to return, also when
\* createTask calls for the project interleave.
C26_DistinctPositions ==
    /\ \A t, u \in tasks :
          (t.project_id = u.project_id /\ t.position = u.position) => t = u
    /\ \A p \in Projects : Cardinality(getTasks(tasks, p)) = 1

(***************************************************************************)
(* Properties of the invitation workflow when remote calls fail.           *)
(***************************************************************************)
\* the membership row acceptProjectInvitation inserts for invitation inv
MembershipOf(inv) == MemberRow(inv.project_id, inv.invited_user_id, inv.role)

\* C22: when, in acceptProjectInvitation, the membership insert has
\* succeeded and the status update fails, the call throws, which
\* handleAcceptInvitation shows as a failure, and nothing is undone: the
\* membership row stays and the invitation stays pending; and a later accept
\* of an invitation whose invited user has a membership row fails at the
\* insert and changes nothing, so that the invitation cannot be completed.
C22_FailedAcceptIsNotRolledBack ==
    [][\A c \in Clients :
          /\ acceptProjectInvitation_updateStatusFails(c) =>
                /\ result' # OK
                /\ handleAcceptInvitation_toast(result') = "Failed to accept invitation"
                /\ pc'[c] = "idle"
                /\ MembershipOf(call[c].invitation) \in project_members'
                /\ call[c].invitation \in project_invitations'
                /\ call[c].invitation.status = "pending"
                /\ project_members' = project_members
                /\ project_invitations' = project_invitations
          /\ (/\ pc[c] = "insertMember"
              /\ pc'[c] # "insertMember"
              /\ IsMember(call[c].invitation.project_id, call[c].invitation.invited_user_id))
             => /\ result' # OK
                /\ handleAcceptInvitation_toast(result') = "Failed to accept invitation"
                /\ pc'[c] = "idle"
                /\ project_members' = project_members
                /\ project_invitations' = project_invitations]_vars

\* after a failed status update, a second accept of the only invitation
\* there has been has found it pending, while the membership row of the
\* first accept is there
C22_Witness ==
    /\ pc[SoleClient] = "insertMember"
    /\ result = ErrFetch
    /\ nextInvId = 2
    /\ call[SoleClient].invitation \in project_invitations
    /\ call[SoleClient].invitation.role = "Viewer"
    /\ MembershipOf(call[SoleClient].invitation) \in project_members

\* C27: in every reachable state, those in which acceptProjectInvitation is
\* running and those after a remote call has failed included, no user is a
\* member of a project and the invited user of a pending invitation to it.
C27_NeverMemberAndPending ==
    \A i \in project_invitations :
       i.status = "pending" => ~IsMember(i.project_id, i.invited_user_id)

(***************************************************************************)
(* The handlers of App                                                     *)
(***************************************************************************)
\* the handler of slot c ends with this step
HandlerEnds(c) ==
    /\ pc[c] \in {"catch", "tail"}
    /\ pc'[c] = "idle"
    /\ call[c].handler # "useEffect"

\* C23: when a remote call inside a handler that mutates has failed, the
\* handler ends having shown a notification of type error, and the view, the
\* selected project and the project list are what they were when it started.
C23_FailureNotifiedStateKept ==
    [][(HandlerEnds(SoleClient) /\ call[SoleClient].failed)
          => /\ toasts'[SoleClient] \cap ErrorToasts # {}
             /\ AppState' = call[SoleClient].before]_vars

\* C28: when handleAddComment has succeeded and the project list has been
\* reloaded, the task of the comment is in the project list with the new
\* comment among its comments.
C28_CommentInReloadedTask ==
    [][(/\ HandlerEnds(SoleClient)
        /\ pc[SoleClient] = "tail"
        /\ call[SoleClient].handler = "handleAddComment"
        /\ ~call[SoleClient].failed)
          => \E project \in clientProjects' :
                \E t \in project.tasks :
                   /\ t.id = call[SoleClient].taskId
                   /\ call[SoleClient].commentId \in t.comments]_vars

\* the rows of project p in the tables createProject and createTask write
RowsOfProject(p) ==
    [project |-> {p} \cap projects,
     members |-> {m \in project_members : m.project_id = p},
     tasks |-> {t \in tasks : t.project_id = p}]

\* C30: when handleCreateProject ends in its catch block, no project row,
\* membership or task of the project of that call remains; when it ends
\* reporting success, the project exists, the user is its Owner, and its
\* tasks are the suggested ones at positions 1..n in the order suggested.
C30_CreateProjectAllOrNothing ==
    [][(HandlerEnds(SoleClient) /\ call[SoleClient].handler = "handleCreateProject")
          => LET p == call[SoleClient].projectId
                 created == call[SoleClient].created
                 rows == RowsOfProject(p)
             IN IF pc[SoleClient] = "catch"
                THEN /\ rows.project = {}
                     /\ rows.members = {}
                     /\ rows.tasks = {}
                ELSE /\ rows.project = {p}
                     /\ \E m \in rows.members :
                           m.user_id = SessionUser /\ m.role = "Owner"
                     /\ Len(created) = call[SoleClient].suggested
                     /\ {t.id : t \in rows.tasks} = {created[k] : k \in 1..Len(created)}
                     /\ \A k \in 1..Len(created) :
                           \A t \in rows.tasks : t.id = created[k] => t.position = k]_vars

\* what getProjects(userId) returns when all its queries read the tables as
\* they are now
BackendProjects(userId) ==
    {[dbToProject(ProjectRow(p), {m \in project_members : m.project_id = p}) EXCEPT
        !.tasks = {dbToTask(t) : t \in {r \in tasks : r.project_id = p}},
        !.milestones = {m.id : m \in {r \in milestones : r.project_id = p}}] :
     p \in {m.project_id : m \in {r \in project_members : r.user_id = userId}}
           \cap projects}

\* C24: when no handler of the session is in flight and the one that ended
\* last has completed, the project list of the client is what the backend
\* holds for the user, also after two handlers have overlapped.
C24_ListEqualsBackendWhenIdle ==
    (result = OK /\ \A c \in Clients : pc[c] = "idle")
       => clientProjects = BackendProjects(SessionUser)

====
